---- MODULE Spec2Model ----
(***************************************************************************)
(* A model of the heka message pipeline: the pool of PipelinePacks that    *)
(* circulates between the input runners, the dispatcher loop of Run, and   *)
(* the output runners (pipeline.go), and the Runner adapter with its pool  *)
(* of outData scratch objects (runner.go).                                 *)
(***************************************************************************)
EXTENDS Integers, Sequences, FiniteSets, TLC

\* ------------------------------------------------------------------ bounds
PoolSize == 1
MaxMsgs == 2
MaxDelivers == 2
MaxVals == 2
MaxFields == 2
MaxQueue == 2
MaxPushes == 4

\* --------------------------------------------------------------- constants
RELOAD == "reload"
STOP == "stop"

NoPack == 0
PackIds == 1..PoolSize

\* Capacity of dataChan and recycleChan in Run.
ChanCap == PoolSize + 1

\* ----------------------------------------------------------- configuration
\* The PipelineConfig the model runs under.  Names of plugins that have an
\* instance in every pack (InitDecoders, InitFilters, InitOutputs).
DefaultDecoder == "d1"
DefaultFilterChain == "default"
Decoders == {"d1"}
Filters == {"f1", "f2"}
OutputChans == {"A", "B"}
Inputs == {"in1"}

\* config.FilterChains: chain name -> filters in order, output names.
\* Chain "lost" names an output that has no runner; chain "ghost" names a
\* filter that has no instance; chain "none" delivers nowhere.
FilterChains ==
    [default |-> [Filters |-> <<"f1", "f2">>, Outputs |-> {"A"}],
     fan     |-> [Filters |-> <<"f1">>,       Outputs |-> {"A", "B"}],
     lost    |-> [Filters |-> <<>>,           Outputs |-> {"X"}],
     ghost   |-> [Filters |-> <<"nofilter", "f2">>, Outputs |-> {"A"}],
     none    |-> [Filters |-> <<>>,           Outputs |-> {}]]

ChainNames == DOMAIN FilterChains

\* Message types the inputs produce, and config.Lookup.LocateChain on them:
\* type "U" is not in the lookup table, type "N" maps to a chain that is
\* not configured.
MsgTypes == {"D", "F", "L", "G", "E", "N", "U"}

LocateChain(msgType) ==
    CASE msgType = "D" -> [ok |-> TRUE,  name |-> "default"]
      [] msgType = "F" -> [ok |-> TRUE,  name |-> "fan"]
      [] msgType = "L" -> [ok |-> TRUE,  name |-> "lost"]
      [] msgType = "G" -> [ok |-> TRUE,  name |-> "ghost"]
      [] msgType = "E" -> [ok |-> TRUE,  name |-> "none"]
      [] msgType = "N" -> [ok |-> TRUE,  name |-> "nochain"]
      [] OTHER         -> [ok |-> FALSE, name |-> ""]

\* Plugin wrappers of each kind whose global is not nil.
InputGlobals == {"in1"}
DecoderGlobals == {"d1"}
FilterGlobals == {"f1"}
OutputGlobals == {"A", "B"}
AllGlobals == InputGlobals \cup DecoderGlobals \cup FilterGlobals \cup OutputGlobals

\* What a plugin call may do.
DecodeOutcomes == {"ok", "error", "panic"}
FilterOutcomes == {"pass", "block", "panic", "unuse"}
MaxChainLen == Len(FilterChains["default"].Filters)

\* ------------------------------------------------------------------- state
VARIABLES
    packs,        \* PackIds -> the fields of each PipelinePack
    recycleChan,  \* Run's recycleChan: sequence of pack references
    dataChan,     \* Run's dataChan: sequence of pack references
    outChan,      \* OutputRunner.Chan of every output
    inRunner,     \* the input runner goroutine: pc and the pack it holds
    outRunner,    \* every output runner goroutine: pc and the pack it holds
    disp,         \* the dispatcher loop of Run and its current pipeline() call
    last,         \* what the last pipeline() call did
    msgsLeft,     \* messages the inputs still have to read
    notified,     \* subscribers that received the STOP notification
    wg,           \* the sync.WaitGroup counter of Run
    ev,           \* the last BroadcastEvent: kind and Event calls per global
    reloaded,     \* a hangup signal has been handled
    rRecycle,     \* recycleChan of every Runner global and FileWriter
    rData,        \* dataChan of every Runner global and FileWriter
    worker,       \* every worker loop: "run", "recycle", "exited" or "crashed"
    wHold,        \* the outData a worker loop received and has not yet recycled
    batched,      \* scratch objects passed to Batch so far
    committed,    \* what batched was when Commit was last called
    enq,          \* scratch objects sent on the batch Runner's dataChan so far
    rLast,        \* the last Deliver, FilterMsg or Read: Runner and PrepOutData result
    rPost,        \* notify.Post(STOP): "", "posting" or "done"
    rNotified,    \* worker loops that received the STOP notification
    delivers,     \* Deliver calls the outputs still have to make
    buggy,        \* plugin globals whose Event handler panics
    fld,          \* a message Field that values are added to
    fop,          \* the last AddValue call: the field before, the value, the result
    msg,          \* a Message
    mop,          \* the last operation on the Message and what it returned
    boot,         \* the last construction call: its inputs and what it returned
    FileWriters,  \* the FileWriters map: path -> the writer registered for it
    writersMade,  \* path -> FileWriters created for it (open file, write loop)
    fileOut,      \* every FileOutput: its path, format and channels
    lastInit,     \* the last FileOutput.Init: inputs, result, the map before it
    sd,           \* the last StatsdOutput.Deliver: the message and the client calls
    fbuf,         \* the bytes of every buffer of the FileWriter and what they should be
    fwrote,       \* the last file.Write of writeLoop: the bytes and what they should be
    que,          \* a Queue: its size and the items in its channel
    qop           \* the last call on the Queue, and the items it took and gave so far

pvars == <<packs, recycleChan, dataChan, outChan, inRunner, outRunner, disp,
           last, msgsLeft, notified, wg, ev, reloaded>>

rvars == <<rRecycle, rData, worker, wHold, batched, committed, enq, rLast,
           rPost, rNotified, delivers>>

cvars == <<boot, FileWriters, writersMade, fileOut, lastInit, sd>>

fvars == <<fbuf, fwrote>>

qvars == <<que, qop>>

svars == <<buggy, fld, fop, msg, mop, cvars, fvars, qvars>>

vars == <<pvars, rvars, svars>>

\* -------------------------------------------------------------- PipelinePack
\* An empty OutputNames map.
NoNames == [n \in {} |-> TRUE]

NewPipelinePack ==
    [Decoder     |-> DefaultDecoder,
     Decoded     |-> FALSE,
     Blocked     |-> FALSE,
     FilterChain |-> DefaultFilterChain,
     OutputNames |-> NoNames,
     MsgFull     |-> TRUE]

\* PipelinePack.Zero.
Zero(pack) ==
    [pack EXCEPT !.MsgFull = TRUE,
                 !.Decoder = DefaultDecoder,
                 !.Decoded = FALSE,
                 !.Blocked = FALSE,
                 !.FilterChain = DefaultFilterChain,
                 !.OutputNames = NoNames]

IsZero(pack) ==
    /\ pack.MsgFull
    /\ pack.Decoder = DefaultDecoder
    /\ ~pack.Decoded
    /\ ~pack.Blocked
    /\ pack.FilterChain = DefaultFilterChain
    /\ DOMAIN pack.OutputNames = {}

\* ------------------------------------------------------------------ filters
\* A safe_filter whose recover does not block the pack.
safe_filter_unblocked(filterName, pack, outcome) ==
    IF filterName \notin Filters
    THEN [pack |-> pack, invoked |-> FALSE, panicked |-> TRUE]
    ELSE CASE outcome = "panic" ->
                [pack |-> pack, invoked |-> TRUE, panicked |-> TRUE]
           [] outcome = "block" ->
                [pack |-> [pack EXCEPT !.Blocked = TRUE], invoked |-> TRUE, panicked |-> FALSE]
           [] outcome = "unuse" ->
                [pack |-> [pack EXCEPT !.OutputNames =
                              [n \in DOMAIN pack.OutputNames \cup {"A"} |->
                                  IF n = "A" THEN FALSE ELSE pack.OutputNames[n]]],
                 invoked |-> TRUE, panicked |-> FALSE]
           [] OTHER ->
                [pack |-> pack, invoked |-> TRUE, panicked |-> FALSE]

\* A safe_filter that passes by a filter name with no instance.
safe_filter_nil_skipped(filterName, pack, outcome) ==
    IF filterName \notin Filters
    THEN [pack |-> pack, invoked |-> FALSE, panicked |-> FALSE]
    ELSE CASE outcome = "panic" ->
                [pack |-> [pack EXCEPT !.Blocked = TRUE], invoked |-> TRUE, panicked |-> TRUE]
           [] outcome = "block" ->
                [pack |-> [pack EXCEPT !.Blocked = TRUE], invoked |-> TRUE, panicked |-> FALSE]
           [] outcome = "unuse" ->
                [pack |-> [pack EXCEPT !.OutputNames =
                              [n \in DOMAIN pack.OutputNames \cup {"A"} |->
                                  IF n = "A" THEN FALSE ELSE pack.OutputNames[n]]],
                 invoked |-> TRUE, panicked |-> FALSE]
           [] OTHER ->
                [pack |-> pack, invoked |-> TRUE, panicked |-> FALSE]

\* safe_filter: FilterMsg on the filter instance of the pack; a panic (also
\* the nil-interface call when the pack holds no such filter) is recovered
\* and blocks the pack.
safe_filter(filterName, pack, outcome) ==
    IF filterName \notin Filters
    THEN [pack |-> [pack EXCEPT !.Blocked = TRUE], invoked |-> FALSE, panicked |-> TRUE]
    ELSE CASE outcome = "panic" ->
                [pack |-> [pack EXCEPT !.Blocked = TRUE], invoked |-> TRUE, panicked |-> TRUE]
           [] outcome = "block" ->
                [pack |-> [pack EXCEPT !.Blocked = TRUE], invoked |-> TRUE, panicked |-> FALSE]
           [] outcome = "unuse" ->
                [pack |-> [pack EXCEPT !.OutputNames =
                              [n \in DOMAIN pack.OutputNames \cup {"A"} |->
                                  IF n = "A" THEN FALSE ELSE pack.OutputNames[n]]],
                 invoked |-> TRUE, panicked |-> FALSE]
           [] OTHER ->
                [pack |-> pack, invoked |-> TRUE, panicked |-> FALSE]

\* A filter loop that goes on to the next filter when the pack is blocked.
RECURSIVE RunChain_no_return(_, _, _, _)
RunChain_no_return(st, filters, k, outcomes) ==
    IF k > Len(filters)
    THEN st
    ELSE LET r == safe_filter(filters[k], st.pack, outcomes[k])
             st2 == [pack     |-> r.pack,
                     trace    |-> IF r.invoked THEN Append(st.trace, filters[k]) ELSE st.trace,
                     panicked |-> r.panicked,
                     panicAt  |-> IF r.panicked THEN filters[k] ELSE st.panicAt,
                     blockAt  |-> IF r.pack.Blocked /\ ~st.pack.Blocked
                                  THEN filters[k] ELSE st.blockAt,
                     chainOk  |-> TRUE]
         IN  RunChain_no_return(st2, filters, k + 1, outcomes)

\* The loop over filterChain.Filters of filterProcessor, from filter k on.
\* blockAt is the filter whose call left the pack blocked.
RECURSIVE RunChain(_, _, _, _)
RunChain(st, filters, k, outcomes) ==
    IF k > Len(filters)
    THEN st
    ELSE LET r == safe_filter(filters[k], st.pack, outcomes[k])
             st2 == [pack     |-> r.pack,
                     trace    |-> IF r.invoked THEN Append(st.trace, filters[k]) ELSE st.trace,
                     panicked |-> r.panicked,
                     panicAt  |-> IF r.panicked THEN filters[k] ELSE st.panicAt,
                     blockAt  |-> IF r.pack.Blocked /\ ~st.pack.Blocked
                                  THEN filters[k] ELSE st.blockAt,
                     chainOk  |-> TRUE]
         IN  IF st2.pack.Blocked THEN st2 ELSE RunChain(st2, filters, k + 1, outcomes)

\* The state of filterProcessor before its filter loop.
ChainStart(pack, ok) ==
    [pack |-> pack, trace |-> <<>>, panicked |-> FALSE, panicAt |-> "",
     blockAt |-> "", chainOk |-> ok]

\* The filters of a chain, last one first.
Reverse(filters) == [k \in 1..Len(filters) |-> filters[Len(filters) + 1 - k]]

\* A filterProcessor that walks the chain's filters from the last to the first.
filterProcessor_reversed(pack, msgType, outcomes) ==
    LET p1 == [pack EXCEPT !.OutputNames = NoNames]
        loc == LocateChain(msgType)
        filterChainName == IF loc.ok THEN loc.name ELSE p1.FilterChain
        p2 == IF loc.ok THEN [p1 EXCEPT !.FilterChain = loc.name] ELSE p1
    IN  IF filterChainName \notin ChainNames
        THEN ChainStart(p2, FALSE)
        ELSE LET chain == FilterChains[filterChainName]
                 p3 == [p2 EXCEPT !.OutputNames = [n \in chain.Outputs |-> TRUE]]
             IN  RunChain(ChainStart(p3, TRUE), Reverse(chain.Filters), 1, outcomes)

\* A filterProcessor that falls back to the configured default chain instead
\* of the chain the pack carries.
filterProcessor_default_fallback(pack, msgType, outcomes) ==
    LET p1 == [pack EXCEPT !.OutputNames = NoNames]
        loc == LocateChain(msgType)
        filterChainName == IF loc.ok THEN loc.name ELSE DefaultFilterChain
        p2 == [p1 EXCEPT !.FilterChain = filterChainName]
    IN  IF filterChainName \notin ChainNames
        THEN ChainStart(p2, FALSE)
        ELSE LET chain == FilterChains[filterChainName]
                 p3 == [p2 EXCEPT !.OutputNames = [n \in chain.Outputs |-> TRUE]]
             IN  RunChain(ChainStart(p3, TRUE), chain.Filters, 1, outcomes)

filterProcessor(pack, msgType, outcomes) ==
    LET p1 == [pack EXCEPT !.OutputNames = NoNames]
        loc == LocateChain(msgType)
        filterChainName == IF loc.ok THEN loc.name ELSE p1.FilterChain
        p2 == IF loc.ok THEN [p1 EXCEPT !.FilterChain = loc.name] ELSE p1
    IN  IF filterChainName \notin ChainNames
        THEN ChainStart(p2, FALSE)
        ELSE LET chain == FilterChains[filterChainName]
                 p3 == [p2 EXCEPT !.OutputNames = [n \in chain.Outputs |-> TRUE]]
             IN  RunChain(ChainStart(p3, TRUE), chain.Filters, 1, outcomes)

\* ----------------------------------------------------------------- pipeline
\* A Decode call whose error is not looked at.
DecodeCall_error_ignored(outcome) == IF outcome = "error" THEN "ok" ELSE outcome

\* decoder.Decode(pack) as pipeline calls it: directly, so that a panic of
\* the decoder is a panic of pipeline.
DecodeCall(outcome) == outcome

\* The output names the fan-out loop of pipeline sends the pack to.
FanOut(pack) ==
    {n \in DOMAIN pack.OutputNames : pack.OutputNames[n] /\ n \in OutputChans}

\* pipeline(pack) up to its fan-out loop: the pack as the stages left it,
\* whether pipeline panicked, whether it returned recycle = true before the
\* loop, and the names the loop will send to.  decRes is what Decode did
\* when pipeline called it, "" when it did not.
pipeline(pack, msgType, dec, outcomes) ==
    LET early(p, why, res) ==
            [pack |-> p, crashed |-> FALSE, recycle |-> TRUE, todo |-> {},
             trace |-> <<>>, panicked |-> FALSE, panicAt |-> "", blockAt |-> "",
             filtered |-> FALSE, decRes |-> res, why |-> why]
        filtered(p, res) ==
            LET f == filterProcessor(p, msgType, outcomes)
            IN  [pack |-> f.pack, crashed |-> FALSE,
                 recycle |-> f.pack.Blocked \/ FanOut(f.pack) = {},
                 todo |-> IF f.pack.Blocked THEN {} ELSE FanOut(f.pack),
                 trace |-> f.trace, panicked |-> f.panicked, panicAt |-> f.panicAt,
                 blockAt |-> f.blockAt, filtered |-> TRUE, decRes |-> res,
                 why |-> IF f.pack.Blocked THEN "blocked"
                         ELSE IF ~f.chainOk THEN "nochain"
                         ELSE IF FanOut(f.pack) = {} THEN "nooutput" ELSE "sent"]
    IN  IF ~pack.Decoded
        THEN IF pack.Decoder \notin Decoders
             THEN early(pack, "nodecoder", "")
             ELSE CASE DecodeCall(dec) = "panic" ->
                         [early(pack, "panic", dec) EXCEPT !.crashed = TRUE, !.recycle = FALSE]
                    [] DecodeCall(dec) = "error" -> early(pack, "decodeerror", dec)
                    [] OTHER -> filtered([pack EXCEPT !.Decoded = TRUE], dec)
        ELSE filtered(pack, "")

\* ------------------------------------------------------------------ helpers
Elems(q) == {q[k] : k \in 1..Len(q)}
Count(q, x) == Cardinality({k \in 1..Len(q) : q[k] = x})

\* Capacity of an OutputRunner's Chan.
OutChanCap == PoolSize + 1

\* Goroutines that subscribed to STOP with notify.Start.
Subscribers == Inputs \cup OutputChans

\* The process runs until a goroutine panics without a recover.
Alive == disp.pc # "crashed"

\* ---------------------------------------------------------------- Init (Run)
\* The state of Run when it reaches the sigListener loop: the outputs and
\* inputs are started, recycleChan holds PoolSize new packs.
IdleDisp == [pc |-> "select", pack |-> NoPack, todo |-> {}, i |-> 0, sig |-> ""]

NoDispatch ==
    [pack |-> NoPack, trace |-> <<>>, panicked |-> FALSE, panicAt |-> "",
     blockAt |-> "", blocked |-> FALSE, chain |-> "", why |-> "",
     decodedIn |-> FALSE, decodedOut |-> FALSE, decRes |-> "",
     filtered |-> FALSE, chainIn |-> "", loc |-> [ok |-> FALSE, name |-> ""],
     fan |-> {}, sent |-> {}, recycled |-> FALSE]

NoEvent == [kind |-> "", calls |-> [g \in AllGlobals |-> 0], panics |-> {}]

PInit ==
    /\ packs = [p \in PackIds |-> NewPipelinePack]
    /\ recycleChan = [k \in 1..PoolSize |-> k]
    /\ dataChan = <<>>
    /\ outChan = [o \in OutputChans |-> <<>>]
    /\ inRunner = [pc |-> "idle", pack |-> NoPack]
    /\ outRunner = [o \in OutputChans |-> [pc |-> "idle", pack |-> NoPack]]
    /\ disp = IdleDisp
    /\ last = NoDispatch
    /\ msgsLeft = MaxMsgs
    /\ notified = {}
    /\ wg = Cardinality(Subscribers)
    /\ ev = NoEvent
    /\ reloaded = FALSE

\* ------------------------------------------------------------- input runner
\* One pass of the input runner's loop: claim a pack from recycleChan, have
\* the input Read into it (the input names the decoder, or hands over a
\* message it decoded itself, and may assign a filter chain), send it on
\* dataChan.
InputRead(decoder, decoded, chain) ==
    /\ Alive
    /\ inRunner.pc = "idle"
    /\ msgsLeft > 0
    /\ recycleChan # <<>>
    /\ Len(dataChan) < ChanCap
    /\ LET p == Head(recycleChan)
       IN  /\ packs' = [packs EXCEPT ![p] =
                          [@ EXCEPT !.Decoder = decoder, !.Decoded = decoded,
                                    !.FilterChain = chain, !.MsgFull = FALSE]]
           /\ recycleChan' = Tail(recycleChan)
           /\ dataChan' = Append(dataChan, p)
           /\ msgsLeft' = msgsLeft - 1
    /\ UNCHANGED <<svars, rvars, outChan, inRunner, outRunner, disp, last, notified, wg, ev, reloaded>>

\* Read timed out with no data: the pack goes back to recycleChan.
InputTimeout ==
    /\ Alive
    /\ inRunner.pc = "idle"
    /\ recycleChan # <<>>
    /\ recycleChan' = Append(Tail(recycleChan), Head(recycleChan))
    /\ UNCHANGED <<svars, rvars, packs, dataChan, outChan, inRunner, outRunner, disp, last,
                   msgsLeft, notified, wg, ev, reloaded>>

\* The input runner takes the STOP notification at its select and exits.
InputStop ==
    /\ Alive
    /\ disp.pc = "posting"
    /\ inRunner.pc = "idle"
    /\ \E n \in Inputs \ notified : notified' = notified \cup {n}
    /\ inRunner' = [pc |-> "done", pack |-> NoPack]
    /\ wg' = wg - 1
    /\ UNCHANGED <<svars, rvars, packs, recycleChan, dataChan, outChan, outRunner, disp, last,
                   msgsLeft, ev, reloaded>>

\* ------------------------------------------------------------ output runner
\* case pack = <-self.Chan: the runner calls Deliver.
OutputReceive(o) ==
    /\ Alive
    /\ outRunner[o].pc = "idle"
    /\ outChan[o] # <<>>
    /\ outRunner' = [outRunner EXCEPT ![o] = [pc |-> "deliver", pack |-> Head(outChan[o])]]
    /\ outChan' = [outChan EXCEPT ![o] = Tail(@)]
    /\ UNCHANGED <<svars, rvars, packs, recycleChan, dataChan, inRunner, disp, last, msgsLeft,
                   notified, wg, ev, reloaded>>

\* Deliver returned: the runner recycles the pack (Zero, then recycleChan).
OutputDeliver(o) ==
    /\ Alive
    /\ outRunner[o].pc = "deliver"
    /\ Len(recycleChan) < ChanCap
    /\ packs' = [packs EXCEPT ![outRunner[o].pack] = Zero(@)]
    /\ recycleChan' = Append(recycleChan, outRunner[o].pack)
    /\ outRunner' = [outRunner EXCEPT ![o] = [pc |-> "idle", pack |-> NoPack]]
    /\ UNCHANGED <<svars, rvars, dataChan, outChan, inRunner, disp, last, msgsLeft, notified,
                   wg, ev, reloaded>>

\* The output runner takes the STOP notification at its select and exits.
OutputStop(o) ==
    /\ Alive
    /\ disp.pc = "posting"
    /\ outRunner[o].pc = "idle"
    /\ o \notin notified
    /\ notified' = notified \cup {o}
    /\ outRunner' = [outRunner EXCEPT ![o] = [pc |-> "done", pack |-> NoPack]]
    /\ wg' = wg - 1
    /\ UNCHANGED <<svars, rvars, packs, recycleChan, dataChan, outChan, inRunner, disp, last,
                   msgsLeft, ev, reloaded>>

\* --------------------------------------------------------------- dispatcher
\* What the last pipeline() call did, kept for the properties: pk is the
\* pack as it came from dataChan, r what pipeline made of it.
Summary(p, pk, msgType, r) ==
    [pack |-> p, trace |-> r.trace, panicked |-> r.panicked, panicAt |-> r.panicAt,
     blockAt |-> r.blockAt, blocked |-> r.pack.Blocked, chain |-> r.pack.FilterChain,
     why |-> r.why,
     decodedIn |-> pk.Decoded, decodedOut |-> r.pack.Decoded, decRes |-> r.decRes,
     filtered |-> r.filtered,
     chainIn |-> IF r.filtered THEN pk.FilterChain ELSE "",
     loc |-> IF r.filtered THEN LocateChain(msgType) ELSE [ok |-> FALSE, name |-> ""],
     fan |-> r.todo, sent |-> {}, recycled |-> FALSE]

\* case pack = <-dataChan of the sigListener loop: pipeline(pack) up to its
\* fan-out loop and, when it returned recycle = true, pack.Zero() and the
\* send on recycleChan.
Dispatch(msgType, dec, outcomes) ==
    /\ disp.pc = "select"
    /\ dataChan # <<>>
    /\ LET p == Head(dataChan)
           r == pipeline(packs[p], msgType, dec, outcomes)
           sum == Summary(p, packs[p], msgType, r)
       IN  /\ dataChan' = Tail(dataChan)
           /\ IF r.crashed
              THEN /\ packs' = [packs EXCEPT ![p] = r.pack]
                   /\ disp' = [disp EXCEPT !.pc = "crashed", !.pack = p, !.todo = {}, !.i = 0]
                   /\ last' = sum
                   /\ UNCHANGED recycleChan
              ELSE IF r.recycle
              THEN /\ Len(recycleChan) < ChanCap
                   /\ packs' = [packs EXCEPT ![p] = Zero(r.pack)]
                   /\ recycleChan' = Append(recycleChan, p)
                   /\ disp' = [disp EXCEPT !.pack = p, !.todo = {}, !.i = 0]
                   /\ last' = [sum EXCEPT !.recycled = TRUE]
              ELSE /\ packs' = [packs EXCEPT ![p] = r.pack]
                   /\ disp' = [disp EXCEPT !.pc = "fanout", !.pack = p, !.todo = r.todo, !.i = 0]
                   /\ last' = sum
                   /\ UNCHANGED recycleChan
    /\ UNCHANGED <<svars, rvars, outChan, inRunner, outRunner, msgsLeft, notified, wg, ev, reloaded>>

\* outChan <- pack; i++ for one name of the fan-out loop.  The loop ranges
\* over pack.OutputNames while it sends, so the send also happens for a name
\* that an output runner's pack.Zero() has meanwhile deleted from the map
\* when the loop had fetched the name before.
DispatchSend(o) ==
    /\ disp.pc = "fanout"
    /\ o \in disp.todo
    /\ Len(outChan[o]) < OutChanCap
    /\ outChan' = [outChan EXCEPT ![o] = Append(@, disp.pack)]
    /\ disp' = [disp EXCEPT !.todo = @ \ {o}, !.i = @ + 1,
                            !.pc = IF disp.todo = {o} THEN "select" ELSE "fanout"]
    /\ last' = [last EXCEPT !.sent = @ \cup {o}]
    /\ UNCHANGED <<svars, rvars, packs, recycleChan, dataChan, inRunner, outRunner, msgsLeft,
                   notified, wg, ev, reloaded>>

\* The fan-out loop does not come by a name that the pack.Zero() of an
\* output runner, which already has the pack, deleted from pack.OutputNames
\* before the loop reached it.  When that ends the loop with i = 0, Run
\* zeroes the pack and sends it on recycleChan.
DispatchSkip(o) ==
    /\ disp.pc = "fanout"
    /\ o \in disp.todo
    /\ o \notin DOMAIN packs[disp.pack].OutputNames
    /\ IF disp.todo = {o} /\ disp.i = 0
       THEN /\ Len(recycleChan) < ChanCap
            /\ packs' = [packs EXCEPT ![disp.pack] = Zero(@)]
            /\ recycleChan' = Append(recycleChan, disp.pack)
            /\ last' = [last EXCEPT !.recycled = TRUE]
       ELSE UNCHANGED <<packs, recycleChan, last>>
    /\ disp' = [disp EXCEPT !.todo = @ \ {o},
                            !.pc = IF disp.todo = {o} THEN "select" ELSE "fanout"]
    /\ UNCHANGED <<svars, rvars, dataChan, outChan, inRunner, outRunner, msgsLeft,
                   notified, wg, ev, reloaded>>

\* ------------------------------------------------------------------ signals
Signals == {"SIGHUP", "SIGINT"}

\* A switch whose hangup case leaves the loop as the interrupt case does.
SignalCase_hangup_breaks(sig) ==
    IF sig = "SIGHUP"
    THEN [event |-> RELOAD, brk |-> TRUE]
    ELSE [event |-> STOP, brk |-> TRUE]

\* switch sig of the sigListener loop: the event to broadcast and whether
\* the loop is left.
SignalCase(sig) ==
    IF sig = "SIGHUP"
    THEN [event |-> RELOAD, brk |-> FALSE]
    ELSE [event |-> STOP, brk |-> TRUE]

\* safe_plugin_global_event: wrapper.global.Event(eventType) under a recover
\* that logs the panic; the caller goes on either way.
safe_plugin_global_event(g, bad) == IF g \in bad THEN "recovered" ELSE "ok"

\* The loops of BroadcastEvent over config.Filters and config.Outputs: the
\* number of Event calls every plugin global gets, and the globals whose
\* handler panicked.
EventCalls ==
    [g \in AllGlobals |->
        (IF g \in FilterGlobals THEN 1 ELSE 0) + (IF g \in OutputGlobals THEN 1 ELSE 0)]

BroadcastEvent(eventType, bad) ==
    [kind   |-> eventType,
     calls  |-> EventCalls,
     panics |-> {g \in AllGlobals :
                   EventCalls[g] > 0 /\ safe_plugin_global_event(g, bad) = "recovered"}]

\* Events with a subscribed channel; notify.Post on any other event returns
\* an error at once.
Subscribed(event) == event = STOP

\* case sig := <-sigChan.  BroadcastEvent starts with notify.Post, which
\* hands the event to one subscriber after the other.
Signal(sig) ==
    /\ disp.pc = "select"
    /\ reloaded' = (reloaded \/ sig = "SIGHUP")
    /\ LET c == SignalCase(sig)
       IN  IF Subscribed(c.event)
           THEN /\ disp' = [disp EXCEPT !.pc = "posting", !.sig = sig]
                /\ UNCHANGED ev
           ELSE /\ ev' = BroadcastEvent(c.event, buggy)
                /\ disp' = [disp EXCEPT !.pc = IF c.brk THEN "wait" ELSE "select",
                                        !.sig = sig]
    /\ UNCHANGED <<svars, rvars, packs, recycleChan, dataChan, outChan, inRunner, outRunner,
                   last, msgsLeft, notified, wg>>

\* notify.Post returned: the rest of BroadcastEvent, then the break.
PostDone ==
    /\ disp.pc = "posting"
    /\ notified = Subscribers
    /\ ev' = BroadcastEvent(SignalCase(disp.sig).event, buggy)
    /\ disp' = [disp EXCEPT !.pc = IF SignalCase(disp.sig).brk THEN "wait" ELSE "select"]
    /\ UNCHANGED <<svars, rvars, packs, recycleChan, dataChan, outChan, inRunner, outRunner,
                   last, msgsLeft, notified, wg, reloaded>>

\* wg.Wait() returns, Run returns.
RunReturn ==
    /\ disp.pc = "wait"
    /\ wg = 0
    /\ disp' = [disp EXCEPT !.pc = "returned"]
    /\ UNCHANGED <<svars, rvars, packs, recycleChan, dataChan, outChan, inRunner, outRunner,
                   last, msgsLeft, notified, wg, ev, reloaded>>

\* ------------------------------------------------------------------- Runner
\* The worker loops: Runner.runner of a Runner with a Writer, Runner.batch_runner
\* of a Runner with a BatchWriter, FileWriter.writeLoop.
Workers == {"writer", "batch", "file"}
Runners == {"writer", "batch"}

\* Both channels of a RunnerGlobal and of a FileWriter hold 2*PoolSize.
RunnerCap == 2 * PoolSize
ScratchIds == 1..RunnerCap
NoData == 0

PluginOutcomes == {"ok", "error", "panic"}
ZeroOutcomes == {"ok", "panic"}

\* The three entry points of a Runner that share one path.
RunnerOps == {"Deliver", "FilterMsg", "Read"}
NoCall == [w |-> "", prep |-> ""]

RAlive == \A w \in Workers : worker[w] # "crashed"

\* preallocate_outdata, and the loop of NewFileWriter that fills RecycleChan.
\* make is what MakeOutData does; when it panics, fills scratch objects were
\* already sent and the deferred recover() turns the panic into an error.
preallocate_outdata(make, fills) ==
    IF make = "panic"
    THEN [err |-> TRUE, recycleChan |-> [k \in 1..fills |-> k]]
    ELSE [err |-> FALSE, recycleChan |-> [k \in 1..RunnerCap |-> k]]

RInit ==
    /\ rRecycle = [w \in Workers |-> preallocate_outdata("ok", 0).recycleChan]
    /\ rData = [w \in Workers |-> <<>>]
    /\ worker = [w \in Workers |-> "run"]
    /\ wHold = [w \in Workers |-> NoData]
    /\ batched = 0
    /\ committed = 0
    /\ enq = 0
    /\ rLast = NoCall
    /\ rPost = ""
    /\ rNotified = {}
    /\ delivers = MaxDelivers

\* Runner.RecycleOutData on recycle channel q: ZeroOutData, then the send;
\* a panic of ZeroOutData is recovered and the send is skipped.
RecycleOutData(q, outData, zero) ==
    IF zero = "panic" THEN q ELSE Append(q, outData)

\* safe_prepoutdata: a panic of PrepOutData becomes an error.
safe_prepoutdata(prep) == IF prep = "panic" THEN "error" ELSE prep

\* Runner.Deliver, Runner.FilterMsg and Runner.Read: claim an outData from
\* recycleChan, safe_prepoutdata, then RecycleOutData on an error or the send
\* on dataChan.
RunnerDeliver(op, w, prep, zero) ==
    /\ RAlive
    /\ op \in RunnerOps
    /\ delivers > 0
    /\ rRecycle[w] # <<>>
    /\ delivers' = delivers - 1
    /\ rLast' = [w |-> w, prep |-> safe_prepoutdata(prep)]
    /\ LET outData == Head(rRecycle[w])
       IN  IF safe_prepoutdata(prep) # "ok"
           THEN /\ rRecycle' = [rRecycle EXCEPT ![w] = RecycleOutData(Tail(@), outData, zero)]
                /\ UNCHANGED <<rData, enq>>
           ELSE /\ Len(rData[w]) < RunnerCap
                /\ rRecycle' = [rRecycle EXCEPT ![w] = Tail(@)]
                /\ rData' = [rData EXCEPT ![w] = Append(@, outData)]
                /\ enq' = IF w = "batch" THEN enq + 1 ELSE enq
    /\ UNCHANGED <<svars, pvars, worker, wHold, batched, committed, rPost, rNotified>>

FILEFORMATS == {"json", "text"}

\* FileOutput.Deliver: the buffer taken from recycleChan gets the timestamp
\* prefix, the message in the output's format and NEWLINE appended, and is
\* sent on dataChan; a message that json.Marshal rejects makes Deliver
\* return before the send.
FileDeliver(prefix_ts, format, marshal) ==
    /\ RAlive
    /\ delivers > 0
    /\ rRecycle["file"] # <<>>
    /\ format = "text" => marshal = "ok"
    /\ delivers' = delivers - 1
    /\ LET d == Head(rRecycle["file"])
           ts == IF prefix_ts THEN <<"ts">> ELSE <<>>
           line == ts \o <<format, "NEWLINE">>
       IN  IF marshal # "ok"
           THEN /\ rRecycle' = [rRecycle EXCEPT !["file"] = Tail(@)]
                /\ fbuf' = [fbuf EXCEPT ![d] =
                               [bytes |-> @.bytes \o ts, want |-> <<>>]]
                /\ UNCHANGED rData
           ELSE /\ Len(rData["file"]) < RunnerCap
                /\ rRecycle' = [rRecycle EXCEPT !["file"] = Tail(@)]
                /\ fbuf' = [fbuf EXCEPT ![d] =
                               [bytes |-> @.bytes \o line, want |-> line]]
                /\ rData' = [rData EXCEPT !["file"] = Append(@, d)]
    /\ UNCHANGED <<buggy, fld, fop, msg, mop, cvars, qvars, fwrote, pvars, worker, wHold,
                   batched, committed, enq, rLast, rPost, rNotified>>

\* safe_writer: a panic of Write is recovered and nil is returned.
safe_writer(write) == IF write = "panic" THEN "ok" ELSE write

\* case outData = <-self.global.dataChan of Runner.runner, up to the call
\* of RecycleOutData.
RunnerWrite(write) ==
    /\ RAlive
    /\ worker["writer"] = "run"
    /\ rData["writer"] # <<>>
    /\ safe_writer(write) \in {"ok", "error"}
    /\ rData' = [rData EXCEPT !["writer"] = Tail(@)]
    /\ wHold' = [wHold EXCEPT !["writer"] = Head(rData["writer"])]
    /\ worker' = [worker EXCEPT !["writer"] = "recycle"]
    /\ UNCHANGED <<svars, pvars, rRecycle, batched, committed, enq, rLast, rPost, rNotified, delivers>>

\* case outData = <-self.global.dataChan of Runner.batch_runner, up to the
\* call of RecycleOutData: Batch is called directly, its panic ends the
\* process.
BatchData(batch) ==
    /\ RAlive
    /\ worker["batch"] = "run"
    /\ rData["batch"] # <<>>
    /\ rData' = [rData EXCEPT !["batch"] = Tail(@)]
    /\ wHold' = [wHold EXCEPT !["batch"] = Head(rData["batch"])]
    /\ worker' = [worker EXCEPT !["batch"] = IF batch = "panic" THEN "crashed" ELSE "recycle"]
    /\ batched' = IF batch = "panic" THEN batched ELSE batched + 1
    /\ UNCHANGED <<svars, pvars, rRecycle, committed, enq, rLast, rPost, rNotified, delivers>>

\* self.RecycleOutData(outData) of the two Runner loops; the send waits for
\* room on recycleChan.
WorkerRecycle(w, zero) ==
    /\ RAlive
    /\ w \in Runners
    /\ worker[w] = "recycle"
    /\ Len(RecycleOutData(rRecycle[w], wHold[w], zero)) <= RunnerCap
    /\ rRecycle' = [rRecycle EXCEPT ![w] = RecycleOutData(@, wHold[w], zero)]
    /\ wHold' = [wHold EXCEPT ![w] = NoData]
    /\ worker' = [worker EXCEPT ![w] = "run"]
    /\ UNCHANGED <<svars, pvars, rData, batched, committed, enq, rLast, rPost, rNotified, delivers>>

\* safe_batchwriter_commit: Commit is called and what it returns is dropped;
\* its panic becomes an error that batch_runner logs.
safe_batchwriter_commit(commit) == IF commit = "panic" THEN "error" ELSE "ok"

\* case <-self.global.ticker of Runner.batch_runner.
BatchTick(commit) ==
    /\ RAlive
    /\ worker["batch"] = "run"
    /\ safe_batchwriter_commit(commit) \in {"ok", "error"}
    /\ committed' = batched
    /\ UNCHANGED <<svars, pvars, rRecycle, rData, worker, wHold, batched, enq, rLast,
                   rPost, rNotified, delivers>>

\* case outputBytes = <-self.DataChan of FileWriter.writeLoop, up to the
\* send on RecycleChan: file.Write, then outputBytes[:cap(outputBytes)],
\* which is the bytes just written and the rest of the array behind them.
WriteLoop(write) ==
    /\ RAlive
    /\ worker["file"] = "run"
    /\ rData["file"] # <<>>
    /\ LET d == Head(rData["file"])
       IN  /\ fwrote' = [bytes |-> fbuf[d].bytes, want |-> fbuf[d].want,
                         done |-> TRUE]
           /\ fbuf' = [fbuf EXCEPT ![d] =
                          [bytes |-> @.bytes \o <<"rest">>, want |-> <<>>]]
           /\ wHold' = [wHold EXCEPT !["file"] = d]
    /\ rData' = [rData EXCEPT !["file"] = Tail(@)]
    /\ worker' = [worker EXCEPT !["file"] = "recycle"]
    /\ UNCHANGED <<buggy, fld, fop, msg, mop, cvars, qvars, pvars, rRecycle, batched,
                   committed, enq, rLast, rPost, rNotified, delivers>>

\* self.RecycleChan <- outputBytes of FileWriter.writeLoop.
WriteLoopRecycle ==
    /\ RAlive
    /\ worker["file"] = "recycle"
    /\ Len(rRecycle["file"]) < RunnerCap
    /\ rRecycle' = [rRecycle EXCEPT !["file"] = Append(@, wHold["file"])]
    /\ wHold' = [wHold EXCEPT !["file"] = NoData]
    /\ worker' = [worker EXCEPT !["file"] = "run"]
    /\ UNCHANGED <<svars, pvars, rData, batched, committed, enq, rLast, rPost, rNotified, delivers>>

\* BroadcastEvent(config, STOP) calls notify.Post(STOP, nil).
PostStop ==
    /\ RAlive
    /\ rPost = ""
    /\ rPost' = "posting"
    /\ UNCHANGED <<svars, pvars, rRecycle, rData, worker, wHold, batched, committed, enq, rLast,
                   rNotified, delivers>>

\* A batch_runner whose stop case goes round the loop again.
StopCase_batch_continues(w) == IF w = "batch" THEN "run" ELSE "exited"

\* case <-stopChan of a worker loop: the loop is left.  notify.Post hands
\* the event to the subscribers one after the other and then returns.
StopCase(w) == "exited"

WorkerStop(w) ==
    /\ RAlive
    /\ rPost = "posting"
    /\ w \notin rNotified
    /\ worker[w] = "run"
    /\ rNotified' = rNotified \cup {w}
    /\ worker' = [worker EXCEPT ![w] = StopCase(w)]
    /\ rPost' = IF rNotified' = Workers THEN "done" ELSE "posting"
    /\ UNCHANGED <<svars, pvars, rRecycle, rData, wHold, batched, committed, enq, rLast, delivers>>

NextRunner ==
    \/ \E op \in RunnerOps, w \in Runners, prep \in PluginOutcomes, zero \in ZeroOutcomes :
          RunnerDeliver(op, w, prep, zero)
    \/ \E prefix_ts \in BOOLEAN, format \in FILEFORMATS, m \in {"ok", "error"} :
          FileDeliver(prefix_ts, format, m)
    \/ \E write \in PluginOutcomes : RunnerWrite(write)
    \/ \E batch \in PluginOutcomes : BatchData(batch)
    \/ \E w \in Runners, zero \in ZeroOutcomes : WorkerRecycle(w, zero)
    \/ \E commit \in PluginOutcomes : BatchTick(commit)
    \/ \E write \in {"ok", "error"} : WriteLoop(write)
    \/ WriteLoopRecycle
    \/ PostStop
    \/ \E w \in Workers : WorkerStop(w)

\* ------------------------------------------------------------ specification
\* What an input leaves in the pack: the decoder to use, whether the message
\* is already decoded, and the filter chain it assigns (an input that decodes
\* the message itself assigns chain "fan").
ReadKinds ==
    {[decoder |-> DefaultDecoder, decoded |-> FALSE, chain |-> DefaultFilterChain],
     [decoder |-> "nodecoder",    decoded |-> FALSE, chain |-> DefaultFilterChain],
     [decoder |-> DefaultDecoder, decoded |-> TRUE,  chain |-> "fan"]}

\* The message a pack carries and what the plugins do with it, one record
\* per distinguishable case: the outcome of a filter that the chain of the
\* message does not reach is left at "pass", and so is everything behind a
\* decoder that fails.
FiltersReached(t) ==
    LET loc == LocateChain(t)
    IN  IF ~loc.ok THEN MaxChainLen
        ELSE IF loc.name \notin ChainNames THEN 0
        ELSE Cardinality({k \in 1..Len(FilterChains[loc.name].Filters) :
                             FilterChains[loc.name].Filters[k] \in Filters})

DispatchInputs ==
    {x \in [t : MsgTypes, dec : DecodeOutcomes, oc : [1..MaxChainLen -> FilterOutcomes]] :
        /\ \A k \in 1..MaxChainLen : k > FiltersReached(x.t) => x.oc[k] = "pass"
        /\ x.dec # "ok" => x.t = "U" /\ \A k \in 1..MaxChainLen : x.oc[k] = "pass"}

Next ==
    \/ \E k \in ReadKinds : InputRead(k.decoder, k.decoded, k.chain)
    \/ InputTimeout
    \/ InputStop
    \/ \E o \in OutputChans : OutputReceive(o)
    \/ \E o \in OutputChans : OutputDeliver(o)
    \/ \E o \in OutputChans : OutputStop(o)
    \/ \E x \in DispatchInputs : Dispatch(x.t, x.dec, x.oc)
    \/ \E o \in OutputChans : DispatchSend(o)
    \/ \E o \in OutputChans : DispatchSkip(o)
    \/ \E sig \in Signals : Signal(sig)
    \/ PostDone
    \/ RunReturn

\* ------------------------------------------------------------------ message
\* Field_ValueType and Field_ValueFormat.
ValueTypes == {"STRING", "BYTES", "INTEGER", "DOUBLE", "BOOL"}
Field_RAW == "RAW"

\* The zero value of Field_ValueType, which a named result t starts with.
ZeroValueType == "STRING"

FieldNames == {"foo", "other"}

\* Go values handed to NewField and AddValue, by the kind reflect sees: a
\* "slice" is a slice or array whose elements are not bytes, "nil" is the
\* nil interface value.
GoValues ==
    {[kind |-> "string", val |-> "s1"], [kind |-> "string", val |-> "s2"],
     [kind |-> "bytes",  val |-> "b1"], [kind |-> "int",    val |-> "i1"],
     [kind |-> "float",  val |-> "d1"], [kind |-> "bool",   val |-> "true"],
     [kind |-> "slice",  val |-> "l1"], [kind |-> "uint",   val |-> "u1"],
     [kind |-> "nil",    val |-> ""]}

\* getValueType: the default case builds its error with v.Type(), which
\* panics on the zero reflect.Value of a nil interface; the slice case
\* leaves t at its zero value and err nil when the elements are not bytes.
getValueType(v) ==
    CASE v.kind = "string" -> [t |-> "STRING",      err |-> FALSE, panic |-> FALSE]
      [] v.kind = "bytes"  -> [t |-> "BYTES",       err |-> FALSE, panic |-> FALSE]
      [] v.kind = "slice"  -> [t |-> ZeroValueType, err |-> FALSE, panic |-> FALSE]
      [] v.kind = "int"    -> [t |-> "INTEGER",     err |-> FALSE, panic |-> FALSE]
      [] v.kind = "float"  -> [t |-> "DOUBLE",      err |-> FALSE, panic |-> FALSE]
      [] v.kind = "bool"   -> [t |-> "BOOL",        err |-> FALSE, panic |-> FALSE]
      [] v.kind = "nil"    -> [t |-> ZeroValueType, err |-> FALSE, panic |-> TRUE]
      [] OTHER             -> [t |-> ZeroValueType, err |-> TRUE,  panic |-> FALSE]

\* NewFieldInit: name, value type and format, no value.
NewFieldInit(name, valueType, valueFormat) ==
    [Name |-> name, ValueType |-> valueType, ValueFormat |-> valueFormat,
     ValueString |-> <<>>, ValueBytes |-> <<>>, ValueInteger |-> <<>>,
     ValueDouble |-> <<>>, ValueBool |-> <<>>]

\* What v.String() gives: the string itself, or "<T Value>" for a value
\* that is not a string.
ReflectString(v) == IF v.kind = "string" THEN v.val ELSE "<" \o v.val \o " Value>"

\* Field.AddValue: the field after the call and the error ("" for nil,
\* "panic" when the call does not return).
AddValue(f, value) ==
    LET g == getValueType(value)
    IN  IF g.panic THEN [f |-> f, err |-> "panic"]
        ELSE IF g.err THEN [f |-> f, err |-> "unsupported"]
        ELSE IF g.t # f.ValueType THEN [f |-> f, err |-> "mismatch"]
        ELSE CASE f.ValueType = "STRING" ->
                    [f |-> [f EXCEPT !.ValueString = Append(@, ReflectString(value))], err |-> ""]
               [] f.ValueType = "BYTES" ->
                    [f |-> [f EXCEPT !.ValueBytes = Append(@, value.val)], err |-> ""]
               [] f.ValueType = "INTEGER" ->
                    [f |-> [f EXCEPT !.ValueInteger = Append(@, value.val)], err |-> ""]
               [] f.ValueType = "DOUBLE" ->
                    [f |-> [f EXCEPT !.ValueDouble = Append(@, value.val)], err |-> ""]
               [] OTHER ->
                    [f |-> [f EXCEPT !.ValueBool = Append(@, value.val)], err |-> ""]

\* The values a field holds, whatever their type.
NumValues(f) ==
    Len(f.ValueString) + Len(f.ValueBytes) + Len(f.ValueInteger)
        + Len(f.ValueDouble) + Len(f.ValueBool)

NoFieldOp == [value |-> [kind |-> "", val |-> ""],
              before |-> NewFieldInit("", ZeroValueType, Field_RAW), err |-> ""]

\* f.AddValue(value) on the field.
FieldAddValue(value) ==
    /\ NumValues(fld) < MaxVals
    /\ LET r == AddValue(fld, value)
       IN  /\ fld' = r.f
           /\ fop' = [value |-> value, before |-> fld, err |-> r.err]
    /\ UNCHANGED <<pvars, rvars, cvars, fvars, qvars, buggy, msg, mop>>

\* NewField: a field of the type of the value, holding the value.
NewField(name, value, valueFormat) ==
    AddValue(NewFieldInit(name, getValueType(value).t, valueFormat), value).f

\* The scalar attributes of a Message; each is a pointer, <<>> when nil.
ScalarAttrs == {"Timestamp", "Type", "Logger", "Severity", "Payload", "EnvVersion",
                "Pid", "Hostname"}
IntAttrs == {"Timestamp", "Severity", "Pid"}

\* What the generated getters return for a nil attribute.
ZeroOf(a) == IF a \in IntAttrs THEN "0" ELSE ""
Get(m, a) == IF m.Scalars[a] = <<>> THEN ZeroOf(a) ELSE m.Scalars[a][1]

UUID_SIZE == 16
ZeroUuid == [i \in 1..UUID_SIZE |-> 0]

\* new(Message): no identifier, every attribute nil, Fields a nil slice.
NewMessage ==
    [Uuid |-> <<>>, Scalars |-> [a \in ScalarAttrs |-> <<>>],
     Fields |-> <<>>, FieldsNil |-> TRUE]

\* Message.SetUuid: a fresh UUID_SIZE buffer unless the message has one of
\* that length, then copy(m.Uuid, v).
SetUuid(m, v) ==
    LET buf == IF Len(m.Uuid) # UUID_SIZE THEN ZeroUuid ELSE m.Uuid
    IN  [m EXCEPT !.Uuid = [i \in 1..UUID_SIZE |-> IF i <= Len(v) THEN v[i] ELSE buf[i]]]

\* SetTimestamp, SetType, ... SetHostname.
SetScalar(m, a, v) == [m EXCEPT !.Scalars[a] = <<v>>]

\* Message.AddField.
AddField(m, f) == [m EXCEPT !.Fields = Append(@, f), !.FieldsNil = FALSE]

\* CopyField.
CopyField(src) ==
    [NewFieldInit(src.Name, src.ValueType, src.ValueFormat) EXCEPT
        !.ValueString = src.ValueString, !.ValueBytes = src.ValueBytes,
        !.ValueInteger = src.ValueInteger, !.ValueDouble = src.ValueDouble,
        !.ValueBool = src.ValueBool]

\* Message.Copy: dst.Fields is made anew with len(src.Fields) elements, so
\* it is never a nil slice.
Copy(src, dst) ==
    LET d1 == IF Len(src.Uuid) > 0 THEN SetUuid(dst, src.Uuid) ELSE [dst EXCEPT !.Uuid = <<>>]
    IN  [d1 EXCEPT !.Scalars = [a \in ScalarAttrs |->
                                   IF src.Scalars[a] # <<>> THEN <<src.Scalars[a][1]>> ELSE <<>>],
                   !.Fields = [i \in 1..Len(src.Fields) |-> CopyField(src.Fields[i])],
                   !.FieldsNil = FALSE]

CopyMessage(src) == Copy(src, NewMessage)

\* Message.Equals: bytes.Equal on the identifiers, the nil test and the
\* values of the scalar attributes, reflect.DeepEqual on Fields, for which a
\* nil slice and an empty slice differ.
Equals(m, other) ==
    /\ m.Uuid = other.Uuid
    /\ \A a \in ScalarAttrs :
          IF m.Scalars[a] = <<>> \/ other.Scalars[a] = <<>>
          THEN m.Scalars[a] = <<>> /\ other.Scalars[a] = <<>>
          ELSE m.Scalars[a][1] = other.Scalars[a][1]
    /\ m.FieldsNil = other.FieldsNil
    /\ Len(m.Fields) = Len(other.Fields)
    /\ \A i \in 1..Len(m.Fields) : m.Fields[i] = other.Fields[i]

\* FindFirstField: the index of the field, 0 for nil.
RECURSIVE FindFirstFrom(_, _, _)
FindFirstFrom(m, name, i) ==
    IF i > Len(m.Fields) THEN 0
    ELSE IF m.Fields[i].Name = name THEN i
    ELSE FindFirstFrom(m, name, i + 1)

\* A lookup that returns the field added last under the name.
FindFirstField_last(m, name) ==
    LET I == {i \in 1..Len(m.Fields) : m.Fields[i].Name = name}
    IN  IF I = {} THEN 0 ELSE CHOOSE i \in I : \A j \in I : j <= i

FindFirstField(m, name) == FindFirstFrom(m, name, 1)

\* GetFieldValue: value is <<>> for nil.
GetFieldValue(m, name) ==
    LET i == FindFirstField(m, name)
        first(q) == IF Len(q) > 0 THEN [value |-> <<q[1]>>, ok |-> TRUE]
                    ELSE [value |-> <<>>, ok |-> FALSE]
    IN  IF i = 0 THEN [value |-> <<>>, ok |-> FALSE]
        ELSE LET f == m.Fields[i]
             IN  CASE f.ValueType = "STRING"  -> first(f.ValueString)
                   [] f.ValueType = "BYTES"   -> first(f.ValueBytes)
                   [] f.ValueType = "INTEGER" -> first(f.ValueInteger)
                   [] f.ValueType = "DOUBLE"  -> first(f.ValueDouble)
                   [] OTHER                   -> first(f.ValueBool)

\* FindAllFields: the indexes of the fields, in the order of the loop.
RECURSIVE FindAllFrom(_, _, _, _)
FindAllFrom(m, name, i, all) ==
    IF i > Len(m.Fields) THEN all
    ELSE FindAllFrom(m, name, i + 1,
                     IF m.Fields[i].Name = name THEN Append(all, i) ELSE all)

FindAllFields(m, name) == FindAllFrom(m, name, 1, <<>>)

\* A string with a double quote in it.
QuoteString == "a\"b"

\* serialize_map: one member per field, with the first value of a STRING or
\* DOUBLE field; any other field puts text into the document that is not
\* JSON; a STRING or DOUBLE field with no value is an index out of range.
serialize_map(msg_fields) ==
    LET n == Len(msg_fields)
        typed(i) == msg_fields[i].ValueType \in {"STRING", "DOUBLE"}
        vals(i) == IF msg_fields[i].ValueType = "STRING"
                   THEN msg_fields[i].ValueString ELSE msg_fields[i].ValueDouble
    IN  [panic   |-> \E i \in 1..n : typed(i) /\ vals(i) = <<>>,
         valid   |-> \A i \in 1..n : typed(i),
         members |-> [i \in 1..n |->
                        [key  |-> msg_fields[i].Name,
                         kind |-> IF msg_fields[i].ValueType = "STRING" THEN "string" ELSE "float64",
                         val  |-> IF typed(i) /\ vals(i) # <<>> THEN vals(i)[1] ELSE ""]]]

NoDoc == [valid |-> FALSE, attrs |-> [a \in ScalarAttrs |-> ""], fields |-> <<>>]

\* Message.MarshalJSON: *self.Timestamp is a nil dereference when the
\* timestamp is absent; the getters give the zero value for an absent
\* attribute; strings are put between quotes as they are.
MarshalJSON(m) ==
    LET sm == serialize_map(m.Fields)
    IN  IF m.Scalars["Timestamp"] = <<>> \/ sm.panic
        THEN [panic |-> TRUE, doc |-> NoDoc]
        ELSE [panic |-> FALSE,
              doc |-> [valid  |-> sm.valid /\ \A a \in ScalarAttrs : Get(m, a) # QuoteString,
                       attrs  |-> [a \in ScalarAttrs |-> Get(m, a)],
                       fields |-> sm.members]]

\* The Go value simplejson hands over for a JSON value: a number is a
\* float64, an array a []interface{}, an object a map, null the nil
\* interface value.
GoValueOf(j) ==
    CASE j.kind = "float64" -> [kind |-> "float", val |-> j.val]
      [] j.kind = "array"   -> [kind |-> "slice", val |-> "[]interface {}"]
      [] j.kind = "object"  -> [kind |-> "map",   val |-> "map[string]interface {}"]
      [] j.kind = "null"    -> [kind |-> "nil",   val |-> ""]
      [] OTHER              -> [kind |-> j.kind,  val |-> j.val]

\* The keys of a JSON object and the value each key has in the map that
\* simplejson builds: of members with the same key the last one.
JsonKeys(members) == {members[i].key : i \in 1..Len(members)}
JsonMap(members, k) ==
    members[CHOOSE i \in 1..Len(members) :
               /\ members[i].key = k
               /\ \A j \in (i + 1)..Len(members) : members[j].key # k]

\* The orders in which a range over a Go map may visit its keys.
MapOrders(keys) ==
    {q \in [1..Cardinality(keys) -> keys] : \A i, j \in DOMAIN q : i # j => q[i] # q[j]}

\* What %d prints for an index of an array.
Itoa(i) == <<"0", "1", "2", "3", "4", "5", "6", "7", "8", "9">>[i + 1]

JsonScalars == {"string", "float64", "bool"}

RECURSIVE flattenValue(_, _, _)
RECURSIVE flattenArray(_, _, _)
RECURSIVE flattenMap(_, _, _, _, _)

\* flattenMap over the keys in the given order: the child path is the key,
\* after the path and a dot when there is a path.  The first error ends it.
flattenMap(members, m, order, k, path) ==
    IF k > Len(order) THEN [m |-> m, err |-> ""]
    ELSE LET childPath == IF path = "" THEN order[k] ELSE path \o "." \o order[k]
             r == flattenValue(JsonMap(members, order[k]), m, childPath)
         IN  IF r.err # "" THEN r ELSE flattenMap(members, r.m, order, k + 1, path)

\* flattenArray: nothing for an empty array; when the first element is a
\* scalar, one field made of it to which AddValue adds each other element,
\* the first error (or panic) of AddValue ending the call with no field
\* added; otherwise flattenValue for each element under path.index.
flattenArray(a, m, path) ==
    IF a = <<>> THEN [m |-> m, err |-> ""]
    ELSE IF a[1].kind \in JsonScalars
    THEN LET RECURSIVE addRest(_, _)
             addRest(f, k) ==
                 IF k > Len(a) THEN [f |-> f, err |-> ""]
                 ELSE LET r == AddValue(f, GoValueOf(a[k]))
                      IN  IF r.err # "" THEN r ELSE addRest(r.f, k + 1)
             r == addRest(NewField(path, GoValueOf(a[1]), Field_RAW), 2)
         IN  IF r.err # "" THEN [m |-> m, err |-> r.err]
             ELSE [m |-> AddField(m, r.f), err |-> ""]
    ELSE LET RECURSIVE each(_, _)
             each(mm, i) ==
                 IF i > Len(a) THEN [m |-> mm, err |-> ""]
                 ELSE LET r == flattenValue(a[i], mm, path \o "." \o Itoa(i - 1))
                      IN  IF r.err # "" THEN r ELSE each(r.m, i + 1)
         IN  each(m, 1)

\* flattenValue: a scalar becomes a field; an array goes to flattenArray
\* and an object to flattenMap, which visits the keys in the order ord of
\* the object; anything else is an error.
flattenValue(j, m, path) ==
    CASE j.kind \in JsonScalars ->
            [m |-> AddField(m, NewField(path, GoValueOf(j), Field_RAW)), err |-> ""]
      [] j.kind = "array"  -> flattenArray(j.val, m, path)
      [] j.kind = "object" -> flattenMap(j.val, m, j.ord, 1, path)
      [] OTHER -> [m |-> m, err |-> "unsupported"]

\* Message.UnmarshalJSON; the document has no "uuid" member, so uuid.Parse
\* gives nil.  An empty timestamp does not parse.
UnmarshalJSON(self, doc, order) ==
    IF ~doc.valid THEN [m |-> self, err |-> "json"]
    ELSE LET m1 == SetScalar(SetUuid(self, <<>>), "Type", doc.attrs["Type"])
         IN  IF doc.attrs["Timestamp"] = ""
             THEN [m |-> m1, err |-> "invalid Timestamp"]
             ELSE LET m2 == [m1 EXCEPT !.Scalars =
                                [a \in ScalarAttrs |->
                                    IF a = "Type" THEN m1.Scalars[a] ELSE <<doc.attrs[a]>>]]
                  IN  flattenMap(doc.fields, m2, order, 1, "")

\* ------------------------------------------------------- operations on msg
NoMsgOp == [op |-> ""]

\* The fields added to the message: made by NewField from a value of each
\* supported kind, one with a second value, one by NewFieldInit alone.
FieldSamples ==
    {NewField("foo", [kind |-> "string", val |-> "s1"], Field_RAW),
     NewField("foo", [kind |-> "string", val |-> "s2"], Field_RAW),
     NewField("other", [kind |-> "string", val |-> "s1"], Field_RAW),
     NewField("foo", [kind |-> "float", val |-> "d1"], Field_RAW),
     NewField("foo", [kind |-> "int", val |-> "i1"], Field_RAW),
     NewField("foo", [kind |-> "bytes", val |-> "b1"], Field_RAW),
     NewField("foo", [kind |-> "bool", val |-> "true"], Field_RAW),
     AddValue(NewField("foo", [kind |-> "string", val |-> "s1"], Field_RAW),
              [kind |-> "string", val |-> "s2"]).f,
     NewFieldInit("foo", "STRING", Field_RAW)}

\* msg.AddField(f).
MsgAddField(f) ==
    /\ mop.op = ""
    /\ Len(msg.Fields) < MaxFields
    /\ msg' = AddField(msg, f)
    /\ UNCHANGED <<pvars, rvars, cvars, fvars, qvars, buggy, fld, fop, mop>>

\* CopyMessage(msg) and the comparison of the copy with msg.
MsgCopy ==
    /\ mop.op = ""
    /\ mop' = [op |-> "copy", equal |-> Equals(CopyMessage(msg), msg)]
    /\ UNCHANGED <<pvars, rvars, cvars, fvars, qvars, buggy, fld, fop, msg>>

\* Messages that differ from m in one respect.
Variants(m) ==
    {CopyMessage(m)}
    \cup {SetUuid(m, [i \in 1..UUID_SIZE |-> 2])}
    \cup {[m EXCEPT !.Scalars[a] = <<ZeroOf(a)>>] : a \in {"Type", "Severity"}}
    \cup {[m EXCEPT !.Scalars[a] = <<>>] : a \in {"Payload", "Pid"}}
    \cup {AddField(m, f) : f \in {NewFieldInit("foo", "STRING", Field_RAW)}}
    \cup {[m EXCEPT !.Fields = [i \in 1..Len(m.Fields) |-> m.Fields[Len(m.Fields) + 1 - i]]]}
    \cup {[m EXCEPT !.Fields[i].Name = "widget"] : i \in 1..Len(m.Fields)}
    \cup {[m EXCEPT !.Fields[i] = AddValue(@, [kind |-> "string", val |-> "s1"]).f] :
             i \in 1..Len(m.Fields)}

\* msg.Equals(other).
MsgEquals ==
    /\ mop.op = ""
    /\ \E other \in Variants(msg) :
          mop' = [op |-> "equals", other |-> other, equal |-> Equals(msg, other)]
    /\ UNCHANGED <<pvars, rvars, cvars, fvars, qvars, buggy, fld, fop, msg>>

\* msg.MarshalJSON() and UnmarshalJSON of the document into a new Message.
MsgRoundTrip ==
    /\ mop.op = ""
    /\ LET j == MarshalJSON(msg)
       IN  IF j.panic
           THEN mop' = [op |-> "json", panic |-> TRUE, err |-> "", out |-> NewMessage]
           ELSE \E order \in MapOrders(JsonKeys(j.doc.fields)) :
                   LET r == UnmarshalJSON(NewMessage, j.doc, order)
                   IN  mop' = [op |-> "json", panic |-> FALSE, err |-> r.err, out |-> r.m]
    /\ UNCHANGED <<pvars, rvars, cvars, fvars, qvars, buggy, fld, fop, msg>>

\* The fields objects: a nested object beside a scalar, arrays of one
\* scalar type, an array of two scalar types, a null, an array with a null
\* or an array after its first scalar, an array of an object and a scalar,
\* an empty array.  An object is there once for each order in which a range
\* may visit its keys.
FieldDocs ==
    LET JStr(v) == [kind |-> "string", val |-> v]
        JNum(v) == [kind |-> "float64", val |-> v]
        JBool(v) == [kind |-> "bool", val |-> v]
        JArr(a) == [kind |-> "array", val |-> a]
        JNull == [kind |-> "null", val |-> ""]
        Member(k, j) == [key |-> k] @@ j
        JObjs(members) ==
            {[kind |-> "object", val |-> members, ord |-> o] :
                o \in MapOrders(JsonKeys(members))}
    IN  {<<Member("meta", o), Member("name", JStr("s1"))>> :
            o \in JObjs(<<Member("a", JStr("s1")), Member("b", JNum("d1"))>>)}
        \cup {<<Member("tags", JArr(a))>> :
                a \in {<<JNum("d1"), JNum("d2")>>,
                       <<JBool("true"), JBool("false")>>,
                       <<JStr("s1"), JNum("d1")>>,
                       <<JStr("s1"), JNull>>,
                       <<JStr("s1"), JArr(<<JStr("s2")>>)>>,
                       <<JNull, JStr("s1")>>,
                       <<>>}}
        \cup {<<Member("tags", JArr(<<o, JStr("s2")>>))>> :
                o \in JObjs(<<Member("a", JStr("s1"))>>)}
        \cup {<<Member("name", JStr("s1")), Member("gone", JNull)>>}

\* Documents handed to UnmarshalJSON: with two scalar fields, with an array
\* field, with a timestamp that does not parse, and one for each member of
\* FieldDocs.
SampleDocs ==
    LET attrs == [a \in ScalarAttrs |->
                     CASE a = "Timestamp" -> "t1" [] a = "Type" -> "timer"
                       [] a = "Severity" -> "6"   [] a = "Pid" -> "46543"
                       [] OTHER -> "x"]
    IN  {[valid |-> TRUE, attrs |-> attrs,
          fields |-> <<[key |-> "rate", kind |-> "float64", val |-> "d1"],
                       [key |-> "name", kind |-> "string", val |-> "s1"]>>],
         [valid |-> TRUE, attrs |-> attrs,
          fields |-> <<[key |-> "tags", kind |-> "array",
                        val |-> <<[kind |-> "string", val |-> "s1"],
                                  [kind |-> "string", val |-> "s2"]>>]>>],
         [valid |-> TRUE, attrs |-> [attrs EXCEPT !["Timestamp"] = ""], fields |-> <<>>]}
        \cup {[valid |-> TRUE, attrs |-> attrs, fields |-> fs] : fs \in FieldDocs}

\* msg.UnmarshalJSON(doc), on a message as it was built or on one that a
\* first document was unmarshalled into.
MsgUnmarshal(doc, order) ==
    /\ \/ mop.op = ""
       \/ mop.op = "unmarshal" /\ mop.had = <<>> /\ Len(msg.Fields) <= MaxFields
    /\ order \in MapOrders(JsonKeys(doc.fields))
    /\ LET r == UnmarshalJSON(msg, doc, order)
       IN  /\ msg' = r.m
           /\ mop' = [op |-> "unmarshal", err |-> r.err, before |-> msg.Uuid,
                      doc |-> doc, had |-> msg.Fields]
    /\ UNCHANGED <<pvars, rvars, cvars, fvars, qvars, buggy, fld, fop>>

\* FindFirstField, FindAllFields and GetFieldValue for a name.
MsgFind(name) ==
    /\ mop.op = ""
    /\ mop' = [op |-> "find", name |-> name,
               first |-> FindFirstField(msg, name),
               all |-> FindAllFields(msg, name),
               value |-> GetFieldValue(msg, name).value,
               ok |-> GetFieldValue(msg, name).ok]
    /\ UNCHANGED <<pvars, rvars, cvars, fvars, qvars, buggy, fld, fop, msg>>

\* The changes a caller makes to a message it holds: *m.Severity and
\* *m.Payload assigned, copy(m.Uuid, u), AddField, and for a field
\* *f.Name assigned, AddValue, the first value assigned, a byte of a BYTES
\* value assigned.
Mutations(m) ==
    {[kind |-> "scalar", a |-> a, i |-> 0, k |-> 0] :
        a \in {a \in {"Severity", "Payload"} : m.Scalars[a] # <<>>}}
    \cup {[kind |-> "uuid", a |-> "", i |-> 0, k |-> 0] : x \in {1} \cap 1..Len(m.Uuid)}
    \cup {[kind |-> "addfield", a |-> "", i |-> 0, k |-> 0]}
    \cup {[kind |-> kd, a |-> "", i |-> i, k |-> 0] :
            kd \in {"name", "addvalue"}, i \in 1..Len(m.Fields)}
    \cup {[kind |-> "value", a |-> "", i |-> i, k |-> 0] :
            i \in {i \in 1..Len(m.Fields) : NumValues(m.Fields[i]) > 0}}
    \cup UNION {{[kind |-> "byte", a |-> "", i |-> i, k |-> k] :
                    k \in 1..Len(m.Fields[i].ValueBytes)} : i \in 1..Len(m.Fields)}

\* The message and the memory after the change: only the assignment of a
\* byte writes to an array of the memory, every other change writes to the
\* message's own cells and slices.
Mutate(m, mem, mut) ==
    LET f == m.Fields[mut.i]
        first == CASE f.ValueType = "STRING"  -> [f EXCEPT !.ValueString[1] = "bah"]
                   [] f.ValueType = "BYTES"   -> [f EXCEPT !.ValueBytes[1] = "fresh"]
                   [] f.ValueType = "INTEGER" -> [f EXCEPT !.ValueInteger[1] = "i9"]
                   [] f.ValueType = "DOUBLE"  -> [f EXCEPT !.ValueDouble[1] = "d9"]
                   [] OTHER                   -> [f EXCEPT !.ValueBool[1] = "other"]
    IN  CASE mut.kind = "scalar" ->
                [m |-> [m EXCEPT !.Scalars[mut.a] = <<"changed">>], mem |-> mem]
          [] mut.kind = "uuid" ->
                [m |-> [m EXCEPT !.Uuid[1] = 9], mem |-> mem]
          [] mut.kind = "addfield" ->
                [m |-> AddField(m, NewField("sna", [kind |-> "string", val |-> "s1"], Field_RAW)),
                 mem |-> mem]
          [] mut.kind = "name" ->
                [m |-> [m EXCEPT !.Fields[mut.i].Name = "widget"], mem |-> mem]
          [] mut.kind = "addvalue" ->
                [m |-> [m EXCEPT !.Fields[mut.i] =
                           AddValue(f, [kind |-> "string", val |-> "foo1"]).f],
                 mem |-> mem]
          [] mut.kind = "value" ->
                [m |-> [m EXCEPT !.Fields[mut.i] = first], mem |-> mem]
          [] OTHER ->
                [m |-> m, mem |-> [mem EXCEPT ![f.ValueBytes[mut.k]] = "written"]]

\* CopyMessage(msg) and a change to the copy or to msg: whether the
\* message changed did change, and whether the other one is as it was.
\* An element of ValueBytes is a slice header, which refers to its byte
\* array; mem gives each array its bytes, "fresh" being an array that no
\* message refers to, and Deref is the message with the bytes its BYTES
\* values have in mem.
MsgMutate(side) ==
    /\ mop.op = ""
    /\ LET cp == CopyMessage(msg)
           ByteRefs == UNION {Elems(msg.Fields[i].ValueBytes) : i \in 1..Len(msg.Fields)}
           mem == [b \in ByteRefs \cup {"fresh"} |-> b]
           Deref(m, mm) ==
               [m EXCEPT !.Fields = [i \in 1..Len(m.Fields) |->
                   [m.Fields[i] EXCEPT !.ValueBytes = [k \in 1..Len(@) |-> mm[@[k]]]]]]
           target == IF side = "copy" THEN cp ELSE msg
           other == IF side = "copy" THEN msg ELSE cp
       IN  \E mut \in Mutations(target) :
              LET r == Mutate(target, mem, mut)
              IN  mop' = [op |-> "mutate", side |-> side, mut |-> mut,
                          changed |-> Deref(r.m, r.mem) # Deref(target, mem),
                          same |-> Deref(other, r.mem) = Deref(other, mem)]
    /\ UNCHANGED <<pvars, rvars, cvars, fvars, qvars, buggy, fld, fop, msg>>

\* No plugin global has a handler that panics; the field is a new string
\* field.
\* ------------------------------------------------------------------
\* Queue: a buffered channel with a push and a nextItem that take the
\* default case of their select when the channel is not ready.
\* ------------------------------------------------------------------

QueueItems == {"a", "b"}

\* NewQueue(size): a channel of that capacity with nothing in it.
NewQueue(size) == [size |-> size, queue |-> <<>>]

\* A push that puts the item in the place of the newest one when the
\* channel is full.
push_overwrite(q, item) ==
    IF Len(q.queue) < q.size
    THEN [q |-> [q EXCEPT !.queue = Append(@, item)], err |-> ""]
    ELSE [q |-> [q EXCEPT !.queue = [k \in 1..Len(@) |-> IF k = Len(@) THEN item ELSE @[k]]],
          err |-> "Queue Full"]

\* Queue.push: the send when the channel has room, else the default case.
push(q, item) ==
    IF Len(q.queue) < q.size
    THEN [q |-> [q EXCEPT !.queue = Append(@, item)], err |-> ""]
    ELSE [q |-> q, err |-> "Queue Full"]

\* Queue.nextItem: the receive when the channel holds an item, else the
\* default case; item is <<>> for nil.
nextItem(q) ==
    IF q.queue # <<>>
    THEN [q |-> [q EXCEPT !.queue = Tail(@)], item |-> <<Head(q.queue)>>, err |-> ""]
    ELSE [q |-> q, item |-> <<>>, err |-> "No item"]

\* q := NewQueue(size), before any call on the queue.
QueueNew(size) ==
    /\ qop.op = "" /\ que.size # size
    /\ que' = NewQueue(size)
    /\ UNCHANGED <<pvars, rvars, cvars, fvars, buggy, fld, fop, msg, mop, qop>>

\* q.push(item); at most MaxPushes items are taken.
QueuePush(item) ==
    /\ Len(qop.in) < MaxPushes
    /\ LET r == push(que, item)
       IN  /\ que' = r.q
           /\ qop' = [qop EXCEPT !.op = "push", !.err = r.err, !.item = <<item>>,
                                 !.before = que.queue,
                                 !.in = IF r.err = "" THEN Append(@, item) ELSE @]
    /\ UNCHANGED <<pvars, rvars, cvars, fvars, buggy, fld, fop, msg, mop>>

\* q.nextItem().
QueueNextItem ==
    /\ LET r == nextItem(que)
       IN  /\ que' = r.q
           /\ qop' = [qop EXCEPT !.op = "nextItem", !.err = r.err, !.item = r.item,
                                 !.before = que.queue, !.out = @ \o r.item]
    /\ UNCHANGED <<pvars, rvars, cvars, fvars, buggy, fld, fop, msg, mop>>

\* ------------------------------------------------------------------
\* Plugin construction: the wrappers that turn a panic into an error.
\* ------------------------------------------------------------------

\* The value the plugin's method panics with.
PanicValue(method) == method \o " Failed"

\* What a construction call returns when its deferred recover() caught the
\* value r: a non-nil error whose text has r in it. A result says whether
\* the error is nil, the recovered value in its text ("" if none) and
\* whether a panic went on to the caller.
Recovered(r) == [nil |-> FALSE, r |-> r, propagated |-> FALSE]

safe_batch_init(init) ==
    CASE init = "panic" -> Recovered(PanicValue("Init"))
      [] init = "error" -> [nil |-> FALSE, r |-> "", propagated |-> FALSE]
      [] OTHER -> [nil |-> TRUE, r |-> "", propagated |-> FALSE]

\* safe_writer_init without its deferred recover().
safe_writer_init_norecover(init) ==
    CASE init = "panic" -> [nil |-> TRUE, r |-> PanicValue("Init"),
                            propagated |-> TRUE]
      [] init = "error" -> [nil |-> FALSE, r |-> "", propagated |-> FALSE]
      [] OTHER -> [nil |-> TRUE, r |-> "", propagated |-> FALSE]

safe_writer_init(init) ==
    CASE init = "panic" -> Recovered(PanicValue("Init"))
      [] init = "error" -> [nil |-> FALSE, r |-> "", propagated |-> FALSE]
      [] OTHER -> [nil |-> TRUE, r |-> "", propagated |-> FALSE]

\* PluginWrapper.CreateWithError: the creator makes the plugin and Init is
\* handed the configuration, for a plain plugin and for one with a global.
CreateWithError(init) ==
    CASE init = "panic" -> Recovered(PanicValue("Init"))
      [] init = "error" -> [nil |-> FALSE, r |-> "", propagated |-> FALSE]
      [] OTHER -> [nil |-> TRUE, r |-> "", propagated |-> FALSE]

safe_initonce(initonce) ==
    CASE initonce = "panic" -> Recovered(PanicValue("InitOnce"))
      [] initonce = "error" -> [nil |-> FALSE, r |-> "", propagated |-> FALSE]
      [] OTHER -> [nil |-> TRUE, r |-> "", propagated |-> FALSE]

\* ConfigStruct returns a value and no error.
Safe_Configstruct(cs) ==
    IF cs = "panic" THEN Recovered(PanicValue("ConfigStruct"))
    ELSE [nil |-> TRUE, r |-> "", propagated |-> FALSE]

ConstructionCalls ==
    {"CreateWithError", "CreateWithError global", "safe_initonce",
     "Safe_Configstruct", "safe_writer_init", "safe_batch_init"}

Construct(call, outcome) ==
    /\ call = "Safe_Configstruct" => outcome # "error"
    /\ boot' = [call |-> call, outcome |-> outcome,
                res |-> CASE call = "safe_initonce" -> safe_initonce(outcome)
                          [] call = "Safe_Configstruct" -> Safe_Configstruct(outcome)
                          [] call = "safe_writer_init" -> safe_writer_init(outcome)
                          [] call = "safe_batch_init" -> safe_batch_init(outcome)
                          [] OTHER -> CreateWithError(outcome)]
    /\ UNCHANGED <<pvars, rvars, fvars, qvars, buggy, fld, fop, msg, mop,
                   FileWriters, writersMade, fileOut, lastInit, sd>>

\* Runner.InitOnce. The error of LoadConfigStruct is assigned to err and
\* err is assigned again by the Init call before anything reads it, so the
\* result does not depend on load. fills is the number of MakeOutData calls
\* that returned before one panicked.
InitOnce(kind, load, init, make, fills) ==
    LET ie == IF kind = "batch" THEN safe_batch_init(init)
              ELSE safe_writer_init(init)
        pre == preallocate_outdata(make, fills)
        res == IF ie.propagated
               THEN [err |-> FALSE, started |-> FALSE, crashed |-> TRUE,
                     recycleChan |-> <<>>]
               ELSE IF ~ie.nil
               THEN [err |-> TRUE, started |-> FALSE, crashed |-> FALSE,
                     recycleChan |-> <<>>]
               ELSE IF pre.err
               THEN [err |-> TRUE, started |-> FALSE, crashed |-> FALSE,
                     recycleChan |-> pre.recycleChan]
               ELSE [err |-> FALSE, started |-> TRUE, crashed |-> FALSE,
                     recycleChan |-> pre.recycleChan]
    IN  /\ boot' = [call |-> "Runner.InitOnce", kind |-> kind, load |-> load,
                    init |-> init, make |-> make, res |-> res]
        /\ UNCHANGED <<pvars, rvars, fvars, qvars, buggy, fld, fop, msg, mop,
                       FileWriters, writersMade, fileOut, lastInit, sd>>

\* ------------------------------------------------------------------
\* FileOutput.Init and the FileWriters map.
\* ------------------------------------------------------------------

\* A FileWriter is known by its path and its rank among the writers made
\* for that path; its two channels belong to it alone. NoWriter is a key
\* that the map does not hold.
NoWriter == <<>>

\* A lookup that never finds the path.
LookupWriter_miss(path) == NoWriter

\* writer, ok := FileWriters[conf.Path]
LookupWriter(path) == FileWriters[path]

\* open is what os.OpenFile does in NewFileWriter.
FileOutputInit(o, path, format, open) ==
    LET before == [FileWriters |-> FileWriters, writersMade |-> writersMade]
        found == LookupWriter(path)
        made == <<path, writersMade[path] + 1>>
        done(e) == lastInit' = [o |-> o, path |-> path, format |-> format,
                                err |-> e, before |-> before]
    IN  /\ IF format \notin FILEFORMATS
           THEN /\ done("format")
                /\ UNCHANGED <<FileWriters, writersMade, fileOut>>
           ELSE IF found = NoWriter /\ open = "error"
           THEN /\ done("open")
                /\ UNCHANGED <<FileWriters, writersMade, fileOut>>
           ELSE LET writer == IF found = NoWriter THEN made ELSE found
                IN  /\ done("")
                    /\ IF found = NoWriter
                       THEN /\ writersMade' =
                                   [writersMade EXCEPT ![path] = @ + 1]
                            /\ FileWriters' =
                                   [FileWriters EXCEPT ![path] = writer]
                       ELSE UNCHANGED <<FileWriters, writersMade>>
                    /\ fileOut' = [fileOut EXCEPT ![o] =
                                      [dataChan |-> writer,
                                       recycleChan |-> writer,
                                       path |-> path, format |-> format]]
        /\ UNCHANGED <<pvars, rvars, fvars, qvars, buggy, fld, fop, msg, mop, boot, sd>>

\* ------------------------------------------------------------------
\* StatsdOutput.Deliver.
\* ------------------------------------------------------------------

\* strings.TrimSpace, on the logger names of the samples.
TrimSpace(s) == IF s = " " THEN "" ELSE s

\* strconv.ParseInt(s, 10, 32) on the payloads of the samples.
ParseInt(s) ==
    CASE s = "-1" -> [err |-> FALSE, n |-> -1]
      [] s = "7" -> [err |-> FALSE, n |-> 7]
      [] s = "2147483648" -> [err |-> TRUE, n |-> 2147483647]
      [] OTHER -> [err |-> TRUE, n |-> 0]

\* The client calls that Deliver makes for message m. A value of the
\* Fields map carries its Go type; an absent key reads as nil.
StatsdDeliver(m) ==
    LET name == m.Fields["name"]
        rate == m.Fields["rate"]
        key == IF TrimSpace(m.Logger) # "" THEN m.Logger \o "." \o name.val
               ELSE name.val
        value == ParseInt(m.Payload)
        call(fn) == <<[fn |-> fn, bucket |-> key, n |-> value.n,
                       srate |-> rate.val]>>
    IN  IF name.kind # "string" THEN <<>>
        ELSE IF value.err THEN <<>>
        ELSE IF rate.kind # "float64" THEN <<>>
        ELSE CASE m.Type = "counter" -> call("IncrementSampledCounter")
               [] m.Type = "timer" -> call("SendSampledTiming")
               [] OTHER -> <<>>

\* The messages handed to Deliver: that of getIncrPipelinePack and its
\* neighbours.
StatsdSamples ==
    LET absent == [kind |-> "nil", val |-> ""]
        all == [Logger : {"thenamespace", "", " "},
                Type : {"counter", "timer", ""},
                Payload : {"-1", "7", "abc", "2147483648"},
                Fields : [{"name", "rate", "type"} ->
                             {[kind |-> "string", val |-> "myname"],
                              [kind |-> "string", val |-> "30"],
                              [kind |-> "float64", val |-> "30"],
                              [kind |-> "string", val |-> "counter"],
                              absent}]]
    IN  {m \in all :
            /\ m.Fields["name"].val \in {"myname", ""}
            /\ m.Fields["rate"].val \in {"30", ""}
            /\ m.Fields["type"].val \in {"counter", ""}}

Deliver(m) ==
    /\ sd' = [delivered |-> TRUE, m |-> m, calls |-> StatsdDeliver(m)]
    /\ UNCHANGED <<pvars, rvars, fvars, qvars, buggy, fld, fop, msg, mop, boot,
                   FileWriters, writersMade, fileOut, lastInit>>

\* No construction call, no FileOutput.Init and no Deliver was made yet;
\* two paths and two FileOutputs.
CInit ==
    /\ boot = [call |-> ""]
    /\ FileWriters = [p \in {"p1", "p2"} |-> NoWriter]
    /\ writersMade = [p \in {"p1", "p2"} |-> 0]
    /\ fileOut = [o \in {"fo1", "fo2"} |->
                     [dataChan |-> NoWriter, recycleChan |-> NoWriter,
                      path |-> "", format |-> ""]]
    /\ lastInit = [err |-> "none"]
    /\ sd = [delivered |-> FALSE]
    /\ fbuf = [d \in ScratchIds |-> [bytes |-> <<>>, want |-> <<>>]]
    /\ fwrote = [bytes |-> <<>>, want |-> <<>>, done |-> FALSE]
    /\ que = NewQueue(0)
    /\ qop = [op |-> "", err |-> "", item |-> <<>>, before |-> <<>>,
              in |-> <<>>, out |-> <<>>]

SInit ==
    /\ buggy = {}
    /\ fld = NewFieldInit("foo", "STRING", Field_RAW)
    /\ fop = NoFieldOp
    /\ msg = NewMessage
    /\ mop = NoMsgOp
    /\ CInit

Init == PInit /\ RInit /\ SInit

\* The pack pipeline.
Spec == Init /\ [][Next]_vars

\* The Runner adapters and the FileWriter with their worker loops.
SpecRunner == Init /\ [][NextRunner]_vars

\* A worker loop that can take the STOP notification eventually takes it,
\* and a worker loop that holds an outData goes on to recycle it.
SpecRunnerFair ==
    /\ SpecRunner
    /\ \A w \in Workers : WF_vars(WorkerStop(w))
    /\ \A w \in Runners : WF_vars(\E zero \in ZeroOutcomes : WorkerRecycle(w, zero))
    /\ WF_vars(WriteLoopRecycle)

\* The batch worker keeps being scheduled and its ticker keeps ticking.
SpecBatchFair ==
    /\ SpecRunner
    /\ WF_vars(\E batch \in PluginOutcomes : BatchData(batch))
    /\ WF_vars(\E zero \in ZeroOutcomes : WorkerRecycle("batch", zero))
    /\ WF_vars(\E commit \in PluginOutcomes : BatchTick(commit))

\* The Runners with one Deliver, FilterMsg or Read call more to come than
\* there are outData, and worker loops that keep being scheduled.
InitDeliver ==
    /\ PInit /\ SInit
    /\ rRecycle = [w \in Workers |-> preallocate_outdata("ok", 0).recycleChan]
    /\ rData = [w \in Workers |-> <<>>]
    /\ worker = [w \in Workers |-> "run"]
    /\ wHold = [w \in Workers |-> NoData]
    /\ batched = 0 /\ committed = 0 /\ enq = 0
    /\ rLast = NoCall
    /\ rPost = "" /\ rNotified = {}
    /\ delivers = RunnerCap + 1

SpecDeliverFair ==
    /\ InitDeliver
    /\ [][\/ \E op \in RunnerOps, w \in Runners, prep \in PluginOutcomes,
               zero \in ZeroOutcomes : RunnerDeliver(op, w, prep, zero)
          \/ \E write \in PluginOutcomes : RunnerWrite(write)
          \/ \E batch \in PluginOutcomes : BatchData(batch)
          \/ \E w \in Runners, zero \in ZeroOutcomes : WorkerRecycle(w, zero)
          \/ \E commit \in PluginOutcomes : BatchTick(commit)
          \/ PostStop
          \/ \E w \in Workers : WorkerStop(w)]_vars
    /\ WF_vars(\E write \in PluginOutcomes : RunnerWrite(write))
    /\ WF_vars(\E batch \in PluginOutcomes : BatchData(batch))
    /\ \A w \in Runners : WF_vars(\E zero \in ZeroOutcomes : WorkerRecycle(w, zero))
    /\ \A w \in Workers : WF_vars(WorkerStop(w))

\* The signal handling of Run with no pack under way, for every set of
\* plugin globals whose Event handler panics.
InitBroadcast ==
    /\ PInit /\ RInit
    /\ buggy \in SUBSET AllGlobals
    /\ fld = NewFieldInit("foo", "STRING", Field_RAW)
    /\ fop = NoFieldOp
    /\ msg = NewMessage
    /\ mop = NoMsgOp
    /\ CInit

NextBroadcast ==
    \/ InputStop
    \/ \E o \in OutputChans : OutputStop(o)
    \/ \E sig \in Signals : Signal(sig)
    \/ PostDone
    \/ RunReturn

SpecBroadcast == InitBroadcast /\ [][NextBroadcast]_vars

\* A Field of every value type, and the values added to it.
InitField ==
    /\ PInit /\ RInit
    /\ buggy = {}
    /\ fld \in {NewFieldInit(n, t, Field_RAW) : n \in FieldNames, t \in ValueTypes}
    /\ fop = NoFieldOp
    /\ msg = NewMessage
    /\ mop = NoMsgOp
    /\ CInit

SpecField == InitField /\ [][\E value \in GoValues : FieldAddValue(value)]_vars

\* Plugin construction at startup: the construction wrappers, Runner.InitOnce
\* and the Init calls of the FileOutputs, made in series.
NextStartup ==
    \/ \E call \in ConstructionCalls, outcome \in PluginOutcomes :
          Construct(call, outcome)
    \/ \E kind \in Runners, load \in {"ok", "error"}, init \in PluginOutcomes,
          make \in ZeroOutcomes, fills \in 0..(RunnerCap - 1) :
          InitOnce(kind, load, init, make, fills)
    \/ \E o \in DOMAIN fileOut, path \in DOMAIN FileWriters,
          format \in FILEFORMATS \cup {"xml"}, open \in {"ok", "error"} :
          FileOutputInit(o, path, format, open)

SpecStartup == Init /\ [][NextStartup]_vars

\* A Queue of each size and the calls on it.
SpecQueue ==
    Init /\ [][\/ \E size \in 1..MaxQueue : QueueNew(size)
              \/ \E item \in QueueItems : QueuePush(item)
              \/ QueueNextItem]_vars

\* StatsdOutput.Deliver on every sample message.
SpecStatsd == Init /\ [][\E m \in StatsdSamples : Deliver(m)]_vars

\* The scalar attributes a message starts with: none; those of a complete
\* message; the same with a type and a severity that are present and zero;
\* with no type; with a payload that has a double quote in it.
AttrSamples ==
    LET full == [a \in ScalarAttrs |->
                    CASE a = "Timestamp" -> <<"t1">> [] a = "Type" -> <<"TEST">>
                      [] a = "Severity" -> <<"6">>   [] a = "Pid" -> <<"46543">>
                      [] OTHER -> <<"x">>]
    IN  {NewMessage.Scalars,
         full,
         [full EXCEPT !["Type"] = <<"">>, !["Severity"] = <<"0">>],
         [full EXCEPT !["Type"] = <<>>],
         [full EXCEPT !["Payload"] = <<QuoteString>>]}

\* A Message with or without an identifier, and the operations on it.
InitMessage ==
    /\ PInit /\ RInit
    /\ buggy = {}
    /\ fld = NewFieldInit("foo", "STRING", Field_RAW)
    /\ fop = NoFieldOp
    /\ \E sc \in AttrSamples, u \in {<<>>, [i \in 1..UUID_SIZE |-> 1]} :
          msg = [(IF u = <<>> THEN NewMessage ELSE SetUuid(NewMessage, u))
                    EXCEPT !.Scalars = sc]
    /\ mop = NoMsgOp
    /\ CInit

NextMessage ==
    \/ \E f \in FieldSamples : MsgAddField(f)
    \/ MsgCopy
    \/ MsgEquals
    \/ MsgRoundTrip
    \/ \E doc \in SampleDocs : \E order \in MapOrders(JsonKeys(doc.fields)) :
          MsgUnmarshal(doc, order)
    \/ \E name \in FieldNames \cup {"test"} : MsgFind(name)
    \/ \E side \in {"copy", "original"} : MsgMutate(side)

SpecMessage == InitMessage /\ [][NextMessage]_vars

\* =================================================================== claims
\* References to pack p that sit on an output's channel or with an output
\* runner that is delivering it.
OutputRefs(p) ==
    LET Held(o) == IF outRunner[o].pc = "deliver" /\ outRunner[o].pack = p THEN 1 ELSE 0
        RECURSIVE Sum(_)
        Sum(S) == IF S = {} THEN 0
                  ELSE LET o == CHOOSE x \in S : TRUE
                       IN  Count(outChan[o], p) + Held(o) + Sum(S \ {o})
    IN  Sum(OutputChans)

\* References to pack p anywhere but in the dispatcher's pipeline() call.
QueuedRefs(p) == Count(recycleChan, p) + Count(dataChan, p) + OutputRefs(p)

\* The inputs have nothing left to read and every stage is idle: the
\* dispatcher waits at its select with dataChan empty, every output runner
\* waits with its channel empty.
Quiescent ==
    /\ msgsLeft = 0
    /\ disp.pc = "select"
    /\ dataChan = <<>>
    /\ inRunner.pc = "idle"
    /\ \A o \in OutputChans : outRunner[o].pc = "idle" /\ outChan[o] = <<>>

\* C1: at quiescence recycleChan and dataChan together hold exactly
\* PoolSize pack references, each pack once, and every one of these packs
\* is in the zero state.
C1_PackConservation ==
    Quiescent =>
        /\ Len(recycleChan) + Len(dataChan) = PoolSize
        /\ \A p \in PackIds : Count(recycleChan, p) + Count(dataChan, p) = 1
        /\ \A p \in Elems(recycleChan) \cup Elems(dataChan) : IsZero(packs[p])

\* C2: in every state a pack has at most one owner: it is on recycleChan,
\* on dataChan, on one output's channel or with one output runner at most
\* once in all, and not at all while pipeline() has it and has not yet sent
\* it; the fan-out never leaves it with two outputs at a time.
C2_AtMostOneOwner ==
    \A p \in PackIds :
        /\ QueuedRefs(p) <= 1
        /\ (disp.pc = "fanout" /\ disp.pack = p /\ disp.i = 0) => QueuedRefs(p) = 0

\* C3: a pack that one dispatch sent to more than one output is on
\* recycleChan at most once, and only when no output still has it queued or
\* is still delivering it.
C3_RecycledOnceByLast ==
    (/\ last.pack # NoPack
     /\ Cardinality(last.sent) > 1
     /\ last.pack \in Elems(recycleChan))
    => /\ Count(recycleChan, last.pack) = 1
       /\ OutputRefs(last.pack) = 0

\* C4: a panic of a decoder's Decode does not end the dispatcher loop: the
\* pack is zeroed and put on recycleChan, it is neither filtered nor sent to
\* an output, and the loop is back at its select.
C4_DecoderPanicCaptured ==
    last.why = "panic" =>
        /\ disp.pc # "crashed"
        /\ last.recycled
        /\ last.trace = <<>>
        /\ last.sent = {}

C6_ScratchConservation ==
    RAlive =>
        \A w \in Runners : \A d \in ScratchIds :
            Count(rRecycle[w], d) + Count(rData[w], d)
                + (IF wHold[w] = d THEN 1 ELSE 0) = 1

\* C7: after a RELOAD or STOP broadcast every plugin global of the
\* configuration, of inputs and decoders as of filters and outputs, has had
\* its Event handler called exactly once.
C7_EveryGlobalNotifiedOnce ==
    ev.kind # "" => \A g \in AllGlobals : ev.calls[g] = 1

\* C8: once STOP is posted, every worker loop (runner, batch_runner,
\* writeLoop) eventually exits, as long as no plugin call ends the process.
C8_ShutdownLiveness ==
    (rPost = "posting") ~> ((\A w \in Workers : worker[w] = "exited") \/ ~RAlive)

\* STOP was posted while work was queued, and every worker loop has exited
\* with items still on a dataChan.
C8_Witness ==
    /\ rPost = "done"
    /\ \A w \in Workers : worker[w] = "exited"
    /\ \E w \in Workers : rData[w] # <<>>

C10_RecycleIffNotSent ==
    (last.pack # NoPack /\ disp.pc # "fanout") => (last.recycled <=> last.sent = {})

\* C11: a pack that passed its chain unblocked is sent exactly once to each
\* output that is still named in its output set when the fan-out loop starts
\* and that has a channel, so two outputs of one chain get the same packs.
C11_FanOutFidelity ==
    (/\ last.pack # NoPack
     /\ disp.pc # "fanout"
     /\ last.filtered
     /\ ~last.blocked)
    => last.sent = last.fan

\* C12: the filters invoked on a pack are the filters of its chain in the
\* order the chain declares them, each once; on a pack that is not blocked
\* all of them are invoked.
C12_FilterOrder ==
    (last.filtered /\ last.chain \in ChainNames) =>
        LET fs == FilterChains[last.chain].Filters
            n == Len(last.trace)
        IN  /\ n <= Len(fs)
            /\ last.trace = SubSeq(fs, 1, n)
            /\ ~last.blocked => n = Len(fs)

\* A pack went unblocked through both filters of the default chain, f1 then
\* f2, and on to output A.
C12_Witness ==
    /\ ~last.blocked
    /\ last.chain = DefaultFilterChain
    /\ last.trace = <<"f1", "f2">>
    /\ last.sent = {"A"}

\* C13: when a filter leaves the pack blocked, it is the last filter invoked
\* on the pack: no filter declared after it runs, the pack is sent to no
\* output and the dispatcher zeroes and recycles it.
C13_BlockedShortCircuit ==
    last.blocked =>
        /\ last.blockAt # ""
        /\ last.fan = {}
        /\ last.sent = {}
        /\ last.recycled
        /\ LET fs == FilterChains[last.chain].Filters
               n == Len(last.trace)
           IN  /\ n <= Len(fs)
               /\ last.trace = SubSeq(fs, 1, n)
               /\ IF last.blockAt \in Filters
                  THEN n >= 1 /\ last.trace[n] = last.blockAt
                  ELSE n < Len(fs) /\ fs[n + 1] = last.blockAt

\* Filter f1 of the default chain blocked the pack without a panic; f2 did
\* not run and the dispatcher recycled the pack.
C13_Witness ==
    /\ last.blocked
    /\ ~last.panicked
    /\ last.chain = DefaultFilterChain
    /\ last.blockAt = "f1"
    /\ last.trace = <<"f1">>
    /\ last.recycled
    /\ last.pack \in Elems(recycleChan)

\* C14: a pack that is not decoded and whose decoder is missing or returns
\* an error is not filtered, is sent nowhere, stays undecoded and is zeroed
\* and recycled; when Decode succeeds the pack is decoded and goes on to the
\* filters; Decode is called on a pack exactly when the pack arrives
\* undecoded and its decoder exists.
C14_DecodeStage ==
    /\ (last.why = "nodecoder" \/ last.decRes = "error") =>
          /\ ~last.filtered
          /\ last.trace = <<>>
          /\ last.fan = {}
          /\ last.sent = {}
          /\ ~last.decodedOut
          /\ last.recycled
    /\ last.decRes = "ok" => last.decodedOut /\ last.filtered
    /\ (last.pack # NoPack /\ last.decodedIn) =>
          last.decRes = "" /\ last.decodedOut /\ last.filtered
    /\ (last.pack # NoPack /\ ~last.decodedIn /\ last.why # "nodecoder") =>
          last.decRes # ""

\* Decode returned an error on a pack, and the dispatcher zeroed the pack
\* and put it on recycleChan.
C14_Witness ==
    /\ last.decRes = "error"
    /\ last.recycled
    /\ last.pack \in Elems(recycleChan)
    /\ IsZero(packs[last.pack])

\* C15: the chain applied to a pack is the one LocateChain names when it
\* finds one, else the chain the pack carries: the filters run and the
\* outputs to send to are those of that chain; when that chain is not
\* configured no filter runs, no output gets the pack and the pack is
\* recycled.
C15_ChainSelection ==
    last.filtered =>
        LET applied == IF last.loc.ok THEN last.loc.name ELSE last.chainIn
        IN  /\ last.chain = applied
            /\ IF applied \in ChainNames
               THEN LET fs == FilterChains[applied].Filters
                        n == Len(last.trace)
                    IN  /\ n <= Len(fs)
                        /\ last.trace = SubSeq(fs, 1, n)
                        /\ ~last.blocked => n = Len(fs)
                        /\ last.fan \subseteq FilterChains[applied].Outputs
                        /\ last.sent \subseteq FilterChains[applied].Outputs
               ELSE /\ last.why = "nochain"
                    /\ last.trace = <<>>
                    /\ last.fan = {}
                    /\ last.sent = {}
                    /\ last.recycled

\* LocateChain found no chain for a pack that carried chain "fan", and the
\* pack went through the filter of "fan" to both of its outputs.
C15_Witness ==
    /\ last.filtered
    /\ ~last.loc.ok
    /\ last.chainIn = "fan"
    /\ last.trace = FilterChains["fan"].Filters
    /\ last.sent = FilterChains["fan"].Outputs

\* C16: every pack on recycleChan is in the zero state.
C16_ZeroState ==
    \A p \in Elems(recycleChan) : IsZero(packs[p])

\* C17: a Deliver, FilterMsg or Read of a Runner takes one outData from
\* recycleChan; when PrepOutData fails the outData goes back to recycleChan
\* and dataChan is left alone, when it succeeds the outData is appended once
\* to dataChan.
C17_RunnerPerMessage ==
    [][(/\ delivers' = delivers - 1
        /\ rRecycle'["file"] = rRecycle["file"]
        /\ rLast'.w \in Runners)
       => LET w == rLast'.w
              d == Head(rRecycle[w])
          IN  IF rLast'.prep # "ok"
              THEN /\ rRecycle'[w] = Append(Tail(rRecycle[w]), d)
                   /\ rData' = rData
              ELSE /\ rRecycle'[w] = Tail(rRecycle[w])
                   /\ rData'[w] = Append(rData[w], d)]_vars

\* C18: the worker loop of a Runner with a Writer puts every outData it
\* received from dataChan back on recycleChan before it goes back to its
\* select, whatever Write did.
C18_WriterRecycles ==
    [][(worker["writer"] = "recycle" /\ worker'["writer"] = "run")
       => rRecycle'["writer"] = Append(rRecycle["writer"], wHold["writer"])]_vars

\* C19: no panic of Batch or Commit ends the batch worker: it is at its
\* select, recycling an outData, or has left on STOP.
C19_BatchPanicIsolation ==
    worker["batch"] \in {"run", "recycle", "exited"}

\* C20: with no STOP, once the deliveries are over, eventually Commit has
\* been called with every outData that was sent on the batch Runner's
\* dataChan already passed to Batch, and recycleChan holds all 2*PoolSize
\* outData again.
C20_BatchCommitLiveness ==
    (delivers = 0) ~>
        \/ rPost # ""
        \/ /\ committed = enq
           /\ rData["batch"] = <<>>
           /\ Len(rRecycle["batch"]) = RunnerCap

\* C21: when the Event handler of a plugin global panics during a broadcast,
\* the panic is caught, every other plugin global has had its handler called
\* exactly once, and the dispatcher goes on after the broadcast.
C21_EventPanicIsolated ==
    (ev.kind # "" /\ ev.panics # {}) =>
        /\ disp.pc \in {"select", "posting", "wait", "returned"}
        /\ \A g \in AllGlobals \ ev.panics : ev.calls[g] = 1

\* C24: AddValue with a value whose type is not the field's value type
\* returns an error and leaves every value sequence of the field as it was;
\* AddValue with a value of the field's type appends the value after the
\* values the field holds and returns no error.
C24_FieldHomogeneity ==
    fop.value.kind # "" =>
        LET TypeOf(v) == CASE v.kind = "string" -> "STRING"
                           [] v.kind = "bytes"  -> "BYTES"
                           [] v.kind = "int"    -> "INTEGER"
                           [] v.kind = "float"  -> "DOUBLE"
                           [] v.kind = "bool"   -> "BOOL"
                           [] OTHER             -> "none"
            t == fop.before.ValueType
        IN  IF TypeOf(fop.value) # t
            THEN fop.err \in {"mismatch", "unsupported"} /\ fld = fop.before
            ELSE /\ fop.err = ""
                 /\ NumValues(fld) = NumValues(fop.before) + 1
                 /\ CASE t = "STRING"  -> fld.ValueString = Append(fop.before.ValueString, fop.value.val)
                      [] t = "BYTES"   -> fld.ValueBytes = Append(fop.before.ValueBytes, fop.value.val)
                      [] t = "INTEGER" -> fld.ValueInteger = Append(fop.before.ValueInteger, fop.value.val)
                      [] t = "DOUBLE"  -> fld.ValueDouble = Append(fop.before.ValueDouble, fop.value.val)
                      [] OTHER         -> fld.ValueBool = Append(fop.before.ValueBool, fop.value.val)

\* C25: a message that is marshalled to JSON and unmarshalled into a new
\* Message comes back with the same scalar attributes, absent where they
\* were absent, and the same fields, names and values in the same order;
\* only the identifier differs, being UUID_SIZE zero bytes.
C25_JsonRoundTrip ==
    mop.op = "json" =>
        /\ ~mop.panic
        /\ mop.err = ""
        /\ mop.out.Uuid = ZeroUuid
        /\ mop.out.Scalars = msg.Scalars
        /\ mop.out.Fields = msg.Fields

\* C26: the copy of a message Equals the message; and two messages that
\* Equals calls equal agree in identifier, in every scalar attribute (absent
\* is not zero), in the number and order of their fields and in each
\* field's name and values.
C26_CopyEquals ==
    /\ mop.op = "copy" => mop.equal
    /\ (mop.op = "equals" /\ mop.equal) =>
          /\ msg.Uuid = mop.other.Uuid
          /\ \A a \in ScalarAttrs : msg.Scalars[a] = mop.other.Scalars[a]
          /\ Len(msg.Fields) = Len(mop.other.Fields)
          /\ \A i \in 1..Len(msg.Fields) :
                LET f == msg.Fields[i]
                    g == mop.other.Fields[i]
                IN  /\ f.Name = g.Name
                    /\ f.ValueString = g.ValueString
                    /\ f.ValueBytes = g.ValueBytes
                    /\ f.ValueInteger = g.ValueInteger
                    /\ f.ValueDouble = g.ValueDouble
                    /\ f.ValueBool = g.ValueBool

\* C27 as stated: FindFirstField returns the field added first under the
\* name, nil when there is none; FindAllFields returns the fields of that
\* name in the order they were added; GetFieldValue returns the first value
\* of the first such field with ok = true whenever a field has the name,
\* and (nil, false) when none has.
C27_FieldLookupAsStated ==
    mop.op = "find" =>
        LET I == {i \in 1..Len(msg.Fields) : msg.Fields[i].Name = mop.name}
        IN  /\ mop.first = (IF I = {} THEN 0 ELSE CHOOSE i \in I : \A j \in I : i <= j)
            /\ {mop.all[k] : k \in 1..Len(mop.all)} = I
            /\ \A k \in 1..(Len(mop.all) - 1) : mop.all[k] < mop.all[k + 1]
            /\ IF I = {} THEN mop.value = <<>> /\ ~mop.ok
               ELSE /\ mop.ok
                    /\ NumValues(msg.Fields[mop.first]) > 0
                    /\ mop.value \in {<<q[1]>> : q \in
                          {msg.Fields[mop.first].ValueString, msg.Fields[mop.first].ValueBytes,
                           msg.Fields[mop.first].ValueInteger, msg.Fields[mop.first].ValueDouble,
                           msg.Fields[mop.first].ValueBool} \ {<<>>}}

\* C27: FindFirstField returns the field added first under the name, nil
\* when there is none; FindAllFields returns the fields of that name in the
\* order they were added; GetFieldValue returns the first value of the first
\* such field with ok = true when that field holds a value, and
\* (nil, false) when no field has the name or the first one holds no value.
C27_FieldLookup ==
    mop.op = "find" =>
        LET I == {i \in 1..Len(msg.Fields) : msg.Fields[i].Name = mop.name}
        IN  /\ mop.first = (IF I = {} THEN 0 ELSE CHOOSE i \in I : \A j \in I : i <= j)
            /\ {mop.all[k] : k \in 1..Len(mop.all)} = I
            /\ \A k \in 1..(Len(mop.all) - 1) : mop.all[k] < mop.all[k + 1]
            /\ IF I = {} \/ NumValues(msg.Fields[mop.first]) = 0
               THEN mop.value = <<>> /\ ~mop.ok
               ELSE /\ mop.ok
                    /\ mop.value \in {<<q[1]>> : q \in
                          {msg.Fields[mop.first].ValueString, msg.Fields[mop.first].ValueBytes,
                           msg.Fields[mop.first].ValueInteger, msg.Fields[mop.first].ValueDouble,
                           msg.Fields[mop.first].ValueBool} \ {<<>>}}

\* A lookup of "foo" in a message whose two fields are both named "foo" and
\* hold different values: the first field and its value are returned, and
\* both fields by FindAllFields.
C27_Witness ==
    /\ mop.op = "find"
    /\ mop.name = "foo"
    /\ Len(msg.Fields) = MaxFields
    /\ msg.Fields[1].ValueString = <<"s2">>
    /\ msg.Fields[2].ValueString = <<"s1">>
    /\ mop.first = 1
    /\ mop.all = <<1, 2>>
    /\ mop.ok
    /\ mop.value = <<"s2">>

\* C28: after an UnmarshalJSON that returns no error the identifier of the
\* target is UUID_SIZE zero bytes, whatever it was before.
C28_UnmarshalResetsUuid ==
    (mop.op = "unmarshal" /\ mop.err = "") => msg.Uuid = ZeroUuid

\* C22: a panic raised by a plugin's Init, by a PluginWithGlobal's Init or
\* InitOnce, by ConfigStruct, or by a Writer or BatchWriter Init during
\* construction is never propagated to the caller: the construction call
\* returns a non-nil error that carries the panic text.
C22_ConstructionPanicIsError ==
    (boot.call \in ConstructionCalls /\ boot.outcome = "panic") =>
        /\ ~boot.res.propagated
        /\ ~boot.res.nil
        /\ boot.res.r =
              PanicValue(CASE boot.call = "safe_initonce" -> "InitOnce"
                           [] boot.call = "Safe_Configstruct" -> "ConfigStruct"
                           [] OTHER -> "Init")

\* A Writer whose Init panicked under safe_writer_init: the call returned
\* an error with "Init Failed" in it.
C22_Witness ==
    /\ boot.call = "safe_writer_init"
    /\ boot.outcome = "panic"
    /\ boot.res = Recovered("Init Failed")

\* C23: Runner.InitOnce reports an error and starts no worker whenever the
\* configuration load fails, the writer's Init returns an error or panics,
\* or MakeOutData panics during preallocation; it returns success, with a
\* worker started, only when all three steps succeeded.
C23_InitOnceReports ==
    boot.call = "Runner.InitOnce" =>
        IF boot.load = "ok" /\ boot.init = "ok" /\ boot.make = "ok"
        THEN ~boot.res.err /\ boot.res.started
        ELSE boot.res.err /\ ~boot.res.started

\* C29: whatever FileOutput.Init calls were made, at most one FileWriter was
\* created per path, the FileOutputs configured with the same path hold the
\* same data and recycle channels, and an Init with a format other than
\* json or text returned an error, created no FileWriter and registered
\* nothing.
C29_OneFileWriterPerPath ==
    /\ \A p \in DOMAIN FileWriters :
          /\ writersMade[p] <= 1
          /\ (FileWriters[p] # NoWriter) <=> (writersMade[p] = 1)
    /\ \A o1, o2 \in DOMAIN fileOut :
          (fileOut[o1].path # "" /\ fileOut[o1].path = fileOut[o2].path) =>
              /\ fileOut[o1].dataChan = fileOut[o2].dataChan
              /\ fileOut[o1].recycleChan = fileOut[o2].recycleChan
              /\ fileOut[o1].dataChan = FileWriters[fileOut[o1].path]
    /\ lastInit.err # "none" =>
          /\ (lastInit.format \notin {"json", "text"}) <=> (lastInit.err = "format")
          /\ lastInit.err = "format" =>
                /\ FileWriters = lastInit.before.FileWriters
                /\ writersMade = lastInit.before.writersMade

\* Two FileOutputs share the one FileWriter of p1, and the last Init, with
\* format xml for p2, failed and left p2 without a writer.
C29_Witness ==
    /\ fileOut["fo1"].path = "p1"
    /\ fileOut["fo2"].path = "p1"
    /\ fileOut["fo1"].dataChan = fileOut["fo2"].dataChan
    /\ writersMade["p1"] = 1
    /\ lastInit.err = "format"
    /\ lastInit.path = "p2"
    /\ writersMade["p2"] = 0

\* C30: Deliver on a message with a logger name, a name field, a rate field,
\* a counter type marker and an integer payload calls
\* IncrementSampledCounter exactly once, with the name field as bucket, the
\* payload integer as n and the rate as srate, and makes no other call.
C30_StatsdCounter ==
    (/\ sd.delivered
     /\ TrimSpace(sd.m.Logger) # ""
     /\ sd.m.Fields["name"].kind = "string"
     /\ sd.m.Fields["rate"].kind # "nil"
     /\ (sd.m.Type = "counter" \/ sd.m.Fields["type"].val = "counter")
     /\ ~ParseInt(sd.m.Payload).err) =>
        sd.calls = <<[fn |-> "IncrementSampledCounter",
                      bucket |-> sd.m.Fields["name"].val,
                      n |-> ParseInt(sd.m.Payload).n,
                      srate |-> sd.m.Fields["rate"].val]>>

\* C31: the fan-out loop sends a pack only to an output whose name is, at
\* the moment of the send, in the pack's OutputNames with a true flag; a
\* name that a filter set to false gets nothing, and a name with no channel
\* is skipped and does not count as a send.
C31_FanOutOnlyUsed ==
    [][/\ \A o \in OutputChans :
             Len(outChan'[o]) > Len(outChan[o]) =>
                 /\ o \in DOMAIN packs[disp.pack].OutputNames
                 /\ packs[disp.pack].OutputNames[o]
       /\ last'.sent \subseteq last'.fan
       /\ last'.fan \subseteq OutputChans
       /\ (last'.why = "nooutput") => (last'.sent = {} /\ last'.recycled)]_vars

\* C38: a chain that lists a filter name for which the pack holds no filter
\* instance blocks the pack at that name: no later filter of the chain is
\* invoked, nothing is sent, the pack is zeroed and recycled, and the
\* dispatcher goes on with its loop.
C38_MissingFilterBlocks ==
    (last.filtered /\ last.chain = "ghost") =>
        /\ last.blocked
        /\ last.blockAt = "nofilter"
        /\ last.trace = <<>>
        /\ last.sent = {}
        /\ last.fan = {}
        /\ last.recycled
        /\ last.why = "blocked"
        /\ IsZero(packs[last.pack]) \/ last.pack \in Elems(dataChan)
        /\ disp.pc # "crashed"

\* A pack of the chain that names the missing filter was dispatched: it is
\* blocked and back on recycleChan, zeroed, and the dispatcher is at its
\* select.
C38_Witness ==
    /\ last.filtered
    /\ last.chain = "ghost"
    /\ last.panicked
    /\ last.recycled
    /\ last.pack \in Elems(recycleChan)
    /\ IsZero(packs[last.pack])
    /\ disp.pc = "select"

\* C34: when a worker loop exits on STOP, every scratch that was passed to
\* Batch has been followed by a Commit call, and no scratch that was queued
\* on dataChan is left there: each was passed to Write or Batch first.
C34_StopDrainsAndCommits ==
    [][\A w \in Runners :
          (worker[w] = "run" /\ worker'[w] = "exited") =>
              /\ rData[w] = <<>>
              /\ w = "batch" => committed = batched]_vars

\* C35: every buffer on the FileWriter's recycle channel has length 0, and
\* the bytes of every file.Write are the timestamp prefix (when configured),
\* the formatted message and one newline and nothing else, also for a
\* buffer that was written and recycled before.
C35_FileBufferEmpty ==
    /\ \A d \in Elems(rRecycle["file"]) : fbuf[d].bytes = <<>>
    /\ fwrote.done => fwrote.bytes = fwrote.want

\* C36: each of the 2*PoolSize buffers of the FileWriter is exactly once on
\* its recycle channel, on its data channel or with the write loop, whatever
\* the FileOutput.Deliver calls did.
C36_FileBufferConservation ==
    RAlive =>
        \A d \in ScratchIds :
            Count(rRecycle["file"], d) + Count(rData["file"], d)
                + (IF wHold["file"] = d THEN 1 ELSE 0) = 1

\* C33: a Deliver, FilterMsg or Read call on a Runner eventually returns:
\* whenever a call is still to come and recycleChan of the Runner is empty,
\* recycleChan eventually holds an outData again for the call to claim, also
\* after STOP has made the worker loop exit.
C33_DeliverReturns ==
    \A w \in Runners :
        (delivers > 0 /\ rRecycle[w] = <<>>) ~> (rRecycle[w] # <<>> \/ ~RAlive)


\* What the fields object of a document stands for, member by member: a
\* scalar for one single-valued field of its key, an object for the fields
\* of its members under key.childKey, an array of scalars for one field
\* with the elements in array order.
RECURSIVE C32_Fields(_, _)
C32_Fields(j, path) ==
    CASE j.kind \in JsonScalars -> {[name |-> path, kind |-> j.kind, vals |-> <<j.val>>]}
      [] j.kind = "object" ->
            UNION {C32_Fields(JsonMap(j.val, k), path \o "." \o k) : k \in JsonKeys(j.val)}
      [] j.kind = "array" ->
            {[name |-> path, kind |-> j.val[1].kind,
              vals |-> [i \in 1..Len(j.val) |-> j.val[i].val]]}
      [] OTHER -> {}

\* A value the claim speaks of: a scalar, a null, an object of such values,
\* an array that is not empty and whose elements are scalars or nulls.
RECURSIVE C32_InScope(_)
C32_InScope(j) ==
    CASE j.kind = "object" -> \A i \in 1..Len(j.val) : C32_InScope(j.val[i])
      [] j.kind = "array" ->
            /\ j.val # <<>>
            /\ \A i \in 1..Len(j.val) : j.val[i].kind \in JsonScalars \cup {"null"}
      [] OTHER -> TRUE

\* A value that has to be refused: a null, an array of more than one kind
\* of element, an object with such a member.
RECURSIVE C32_Refused(_)
C32_Refused(j) ==
    CASE j.kind = "object" -> \E i \in 1..Len(j.val) : C32_Refused(j.val[i])
      [] j.kind = "array" -> \E i \in 1..Len(j.val) : j.val[i].kind # j.val[1].kind
      [] j.kind = "null" -> TRUE
      [] OTHER -> FALSE

\* A field as name, JSON kind and values.
C32_View(f) ==
    CASE f.ValueType = "STRING" -> [name |-> f.Name, kind |-> "string", vals |-> f.ValueString]
      [] f.ValueType = "DOUBLE" -> [name |-> f.Name, kind |-> "float64", vals |-> f.ValueDouble]
      [] f.ValueType = "BOOL"   -> [name |-> f.Name, kind |-> "bool", vals |-> f.ValueBool]
      [] OTHER -> [name |-> f.Name, kind |-> f.ValueType, vals |-> <<>>]

\* The fields an UnmarshalJSON added to the message.
C32_Added == SubSeq(msg.Fields, Len(mop.had) + 1, Len(msg.Fields))

\* C32: UnmarshalJSON of a document that parses, whose fields object holds
\* scalars, nested objects, arrays of scalars and nulls: when a value is a
\* null or an array of more than one kind of element, an error is returned;
\* otherwise no error is returned and the fields added are, one for one, a
\* single-valued field named by its key for a scalar, fields named
\* parentKey.childKey for a nested object, and one field with all elements
\* in array order for an array of scalars of one type.
C32_FlattenMapping ==
    (/\ mop.op = "unmarshal" /\ mop.doc.valid /\ mop.doc.attrs["Timestamp"] # ""
     /\ \A i \in 1..Len(mop.doc.fields) : C32_InScope(mop.doc.fields[i]))
    => LET tops == {JsonMap(mop.doc.fields, k) : k \in JsonKeys(mop.doc.fields)}
           want == UNION {C32_Fields(t, t.key) : t \in tops}
       IN  IF \E t \in tops : C32_Refused(t)
           THEN mop.err \notin {"", "panic"}
           ELSE /\ mop.err = ""
                /\ Len(C32_Added) = Cardinality(want)
                /\ {C32_View(C32_Added[i]) : i \in 1..Len(C32_Added)} = want

\* C37: after an UnmarshalJSON that returns no error the fields of the
\* message are exactly the fields of the document, those a message without
\* fields gets from it in one of the orders of its keys: no field the
\* message held before remains.
C37_UnmarshalReplacesFields ==
    (mop.op = "unmarshal" /\ mop.err = "") =>
        \E order \in MapOrders(JsonKeys(mop.doc.fields)) :
            msg.Fields = UnmarshalJSON(NewMessage, mop.doc, order).m.Fields

\* C39: after CopyMessage, a change to the copy (a scalar attribute, the
\* identifier, the field list, a field's name, a field's values, a byte of
\* a BYTES value) leaves the original as it was, and a change to the
\* original leaves the copy as it was.
C39_CopyIndependent == mop.op = "mutate" => mop.same

\* C40: push and nextItem never block, whatever the queue holds; a push
\* on a queue that holds its size of items returns the Queue Full error
\* and leaves the contents as they were, any other push returns no error
\* and puts the item last; nextItem on an empty queue returns the No item
\* error and a nil item, on any other queue no error and the oldest item,
\* which it removes; the queue never holds more than its size; the items
\* returned are, in order, the first of the items taken.
C40_QueueNeverBlocks ==
    /\ ENABLED QueueNextItem
    /\ Len(qop.in) < MaxPushes => \A item \in QueueItems : ENABLED QueuePush(item)
    /\ Len(que.queue) <= que.size
    /\ qop.op = "push" =>
          IF Len(qop.before) >= que.size
          THEN qop.err = "Queue Full" /\ que.queue = qop.before
          ELSE qop.err = "" /\ que.queue = Append(qop.before, qop.item[1])
    /\ qop.op = "nextItem" =>
          IF qop.before = <<>>
          THEN qop.err = "No item" /\ qop.item = <<>> /\ que.queue = <<>>
          ELSE qop.err = "" /\ qop.item = <<Head(qop.before)>> /\ que.queue = Tail(qop.before)
    /\ qop.in = qop.out \o que.queue

\* A push refused by a full queue of at least one place that has given an
\* item before.
C40_Witness ==
    /\ qop.op = "push" /\ qop.err = "Queue Full"
    /\ que.size >= 1 /\ Len(que.queue) = que.size /\ Len(qop.out) >= 1
====
